---- MODULE Spec2Model ----
(***************************************************************************)
(* A model of selfapi (src/selfapi.js, the second, current definition of   *)
(* API in the file, lines 280-957): the tree of API resources with its     *)
(* handler-export protocol, and the self-test engine.                      *)
(*                                                                         *)
(* Strings that are paths are modelled by what String.split('/') gives:    *)
(* '/a/b' is <<"", "a", "b">>, '/' is <<"", "">>, 'a/' is <<"a", "">>, the *)
(* empty string is <<"">>.  Joining two strings with a '/' between them is *)
(* then the concatenation of the two sequences.  null and undefined are    *)
(* the empty sequence.                                                     *)
(***************************************************************************)
EXTENDS Integers, Sequences, FiniteSets, TLC

VARIABLES heap, ncalls, last, twin, plan, pc, baseUrl, run, exampleResponse, response,
          pathCall, request

vars == <<heap, ncalls, last, twin, plan, pc, baseUrl, run, exampleResponse, response,
          pathCall, request>>
treeVars == <<heap, ncalls, last>>
orderVars == <<twin, plan, pc>>
wireVars == <<exampleResponse, response>>
runVars == <<baseUrl, run, wireVars>>
callVars == <<pathCall, request>>

(***************************************************************************)
(* Bounds of the model.                                                    *)
(***************************************************************************)
MaxNodes == 3
MaxCalls == 4
PlanNodes == 2
PlanAdds == 2
MaxExamples == 2

(***************************************************************************)
(* Paths.                                                                  *)
(***************************************************************************)
None == <<>>
EmptyString == <<"">>
Root == <<"", "">>

Falsy(s) == s = None \/ s = EmptyString

Last(s) == s[Len(s)]
ButLast(s) == SubSeq(s, 1, Len(s) - 1)

IsAbsolute(s) == Len(s) >= 2 /\ s[1] = ""
TrailingSeparator(s) == Len(s) >= 2 /\ Last(s) = ""

\* normalizeString of Node's path module: the segments of `s` from `i` on,
\* pushed on `res`; '' and '.' are skipped, '..' pops a segment (or is kept
\* when the path may climb above its start).
RECURSIVE NormalizeString(_, _, _, _)
NormalizeString(s, i, res, allowAboveRoot) ==
  IF i > Len(s) THEN res
  ELSE LET seg == s[i] IN
       IF seg = "" \/ seg = "." THEN NormalizeString(s, i + 1, res, allowAboveRoot)
       ELSE IF seg = ".." THEN
              IF Len(res) > 0 /\ Last(res) # ".."
              THEN NormalizeString(s, i + 1, ButLast(res), allowAboveRoot)
              ELSE IF allowAboveRoot
                   THEN NormalizeString(s, i + 1, Append(res, ".."), allowAboveRoot)
                   ELSE NormalizeString(s, i + 1, res, allowAboveRoot)
       ELSE NormalizeString(s, i + 1, Append(res, seg), allowAboveRoot)

\* nodepath.normalize
PosixNormalize(s) ==
  IF s = EmptyString THEN <<".">>
  ELSE LET abs == IsAbsolute(s)
           trail == TrailingSeparator(s)
           res == NormalizeString(s, 1, <<>>, ~abs)
       IN IF Len(res) = 0
          THEN IF abs THEN Root ELSE IF trail THEN <<".", "">> ELSE <<".">>
          ELSE (IF abs THEN <<"">> ELSE <<>>) \o res \o (IF trail THEN <<"">> ELSE <<>>)

\* nodepath.join(a, b): the non-empty arguments joined by '/', normalized.
PosixJoin(a, b) ==
  LET joined == IF a = EmptyString THEN b
                ELSE IF b = EmptyString THEN a
                ELSE a \o b
  IN PosixNormalize(joined)

\* normalizePath that returns '/' as it is
MutNormalizePathKeepsRoot(path, basePath) ==
  PosixNormalize(PosixJoin(IF Falsy(basePath) THEN Root ELSE basePath,
                           IF Falsy(path) THEN EmptyString ELSE path))

\* normalizePath(path, basePath)
normalizePath(path, basePath) ==
  LET joined == PosixJoin(IF Falsy(basePath) THEN Root ELSE basePath,
                          IF Falsy(path) THEN EmptyString ELSE path)
      normalized == PosixNormalize(joined)
  IN IF normalized # Root THEN normalized ELSE None

\* pathCall: the latest call of normalizePath made on its own, with its
\* arguments and its result; request: the latest request path built from
\* the URL parameters of an example
NoPathCall ==
  [path |-> None, basePath |-> None, result |-> None, again |-> None, calls |-> 0]
NoRequest == [path |-> <<>>, urlParameters |-> <<>>, result |-> <<>>, built |-> FALSE]

(***************************************************************************)
(* The heap: the API nodes and the server apps they are mounted on.        *)
(*   heap.n            number of API objects constructed so far            *)
(*   heap.path[i]      i._path                                             *)
(*   heap.title[i]     i.title, "" for null                                *)
(*   heap.parent[i]    i._parent: nothing, an API, or the wrapper          *)
(*                     {exportHandler: exporter} around a server app       *)
(*   heap.children[i]  i.children, heap.handlers[i]  i.handlers: objects   *)
(*                     used as maps, kept as lists of key/val pairs in     *)
(*                     the order of insertion (the order of for-in)        *)
(*   heap.reg[a]       the registrations server app `a` holds: the         *)
(*                     (method, path, handler) of the calls                *)
(*                     app[method](path, handler) it has received          *)
(*   heap.calls        the calls app[method](path, handler) made since the *)
(*                     latest call of the interface began, in order        *)
(*   heap.thrown       the latest call of the interface ended by the       *)
(*                     TypeError of calling app[method] that is undefined  *)
(***************************************************************************)
Nodes == 1..MaxNodes

\* The objects given as server apps, and the properties each has: "app" is
\* an express application, "restify" a server that names its entry point
\* for DELETE del, "router" an object with handle, get and post only,
\* "verbs" one with get, post and put only, "plain" one with none.
Hosts == {"app", "restify", "router", "verbs", "plain"}
Properties(a) ==
  CASE a = "app" -> {"use", "handle", "get", "post", "patch", "put", "delete"}
    [] a = "restify" -> {"use", "get", "post", "patch", "put", "del"}
    [] a = "router" -> {"handle", "get", "post"}
    [] a = "verbs" -> {"get", "post", "put"}
    [] OTHER -> {}
Methods == {"get", "post"}
Handlers == 1..MaxCalls
Specs == [handler : Handlers, examples : {<<>>}]

NoParent == [kind |-> "none", ref |-> 0]
NodeRef(p) == [kind |-> "node", ref |-> p]
HostRef(a) == [kind |-> "host", ref |-> a]
\* a value that is neither an API nor a server app (a number, {}, ...)
Other == [kind |-> "other", ref |-> 0]

MapHas(map, k) == \E i \in 1..Len(map) : map[i].key = k
MapGet(map, k) == map[CHOOSE i \in 1..Len(map) : map[i].key = k].val
\* map[k] = v that leaves in place what the map holds under k
MutMapPutKeepsFirst(map, k, v) ==
  IF MapHas(map, k) THEN map ELSE Append(map, [key |-> k, val |-> v])

\* map[k] = v that leaves nothing else in the map
MutMapPutAlone(map, k, v) == <<[key |-> k, val |-> v]>>

MapPut(map, k, v) ==
  IF MapHas(map, k)
  THEN [i \in 1..Len(map) |-> IF map[i].key = k THEN [key |-> k, val |-> v] ELSE map[i]]
  ELSE Append(map, [key |-> k, val |-> v])
MapKeys(map) == {map[i].key : i \in 1..Len(map)}
MapVals(map) == {map[i].val : i \in 1..Len(map)}

EmptyHeap ==
  [n |-> 0,
   path |-> [i \in Nodes |-> None],
   title |-> [i \in Nodes |-> ""],
   parent |-> [i \in Nodes |-> NoParent],
   children |-> [i \in Nodes |-> <<>>],
   handlers |-> [i \in Nodes |-> <<>>],
   beforeEachTest |-> [i \in Nodes |-> "null"],
   afterEachTest |-> [i \in Nodes |-> "null"],
   reg |-> [a \in Hosts |-> {}],
   calls |-> <<>>,
   thrown |-> FALSE]

\* isServerApp that asks for put as well
MutIsServerAppNeedsPut(v) ==
  /\ v.kind = "host"
  /\ "use" \in Properties(v.ref) \/ "handle" \in Properties(v.ref)
  /\ "get" \in Properties(v.ref)
  /\ "post" \in Properties(v.ref)
  /\ "put" \in Properties(v.ref)

\* isServerApp: !!(app && (app.use || app.handle) && app.get && app.post)
isServerApp(v) ==
  /\ v.kind = "host"
  /\ "use" \in Properties(v.ref) \/ "handle" \in Properties(v.ref)
  /\ "get" \in Properties(v.ref)
  /\ "post" \in Properties(v.ref)

\* the method the function getHandlerExporter returns calls on app
EntryPoint(app, method) ==
  IF method = "del" /\ "delete" \in Properties(app) THEN "delete" ELSE method

\* The function getHandlerExporter returns, applied: app[method](path,
\* parameters.handler), which throws when app has no such method; what
\* followed in the call of the interface is then not run.
exporter(H, app, method, path, parameters) ==
  IF H.thrown THEN H
  ELSE IF EntryPoint(app, method) \notin Properties(app)
  THEN [H EXCEPT !.thrown = TRUE]
  ELSE LET r == [method |-> EntryPoint(app, method), path |-> path,
                 handler |-> parameters.handler] IN
       [H EXCEPT !.reg[app] = @ \cup {r},
                 !.calls = Append(@, [app |-> app, method |-> EntryPoint(app, method),
                                      path |-> path, handler |-> parameters.handler])]

\* exportHandler's fullPath: the path handed up, under this.path
MutFullPathUnprefixed(H, this, path) == normalizePath(path, None)
PrefixedPath(H, this, path) == normalizePath(path, H.path[this])

\* API.prototype.exportHandler
RECURSIVE exportHandler(_, _, _, _, _)
exportHandler(H, this, method, path, parameters) ==
  IF H.parent[this].kind = "none" THEN H
  ELSE LET fullPath == PrefixedPath(H, this, path) IN
       IF H.parent[this].kind = "node"
       THEN exportHandler(H, H.parent[this].ref, method, fullPath, parameters)
       ELSE exporter(H, H.parent[this].ref, method, fullPath, parameters)

\* for (var method in this.handlers) this.exportHandler(method, null, ...)
RECURSIVE ExportOwn(_, _, _)
ExportOwn(H, this, i) ==
  IF i > Len(H.handlers[this]) THEN H
  ELSE ExportOwn(exportHandler(H, this, H.handlers[this][i].key, None,
                               H.handlers[this][i].val), this, i + 1)

\* API.prototype.exportAllHandlers
RECURSIVE exportAllHandlers(_, _)
RECURSIVE ExportChildren(_, _, _)
MutExportOwnOnly(H, this) ==
  IF H.parent[this].kind = "none" THEN H ELSE ExportOwn(H, this, 1)
exportAllHandlers(H, this) ==
  IF H.parent[this].kind = "none" THEN H
  ELSE ExportChildren(ExportOwn(H, this, 1), this, 1)
ExportChildren(H, this, i) ==
  IF i > Len(H.children[this]) THEN H
  ELSE ExportChildren(exportAllHandlers(H, H.children[this][i].val), this, i + 1)

\* set parent that leaves the parent in place where it is to be null
MutLinkParentNoDetach(H, this, parent) ==
  IF parent.kind = "node"
  THEN [H EXCEPT !.children[parent.ref] = MapPut(@, H.path[this], this),
                 !.parent[this] = parent]
  ELSE IF isServerApp(parent)
  THEN [H EXCEPT !.parent[this] = parent]
  ELSE H

\* set parent, up to the call of exportAllHandlers
LinkParent(H, this, parent) ==
  IF parent.kind = "node"
  THEN [H EXCEPT !.children[parent.ref] = MapPut(@, H.path[this], this),
                 !.parent[this] = parent]
  ELSE IF isServerApp(parent)
  THEN [H EXCEPT !.parent[this] = parent]
  ELSE [H EXCEPT !.parent[this] = NoParent]

\* `parent === this._parent`: the wrapper around a server app is a new
\* object every time, never the app itself.
SameParent(H, this, parent) ==
  \/ parent.kind = "node" /\ H.parent[this] = parent
  \/ parent.kind = "none" /\ H.parent[this].kind = "none"

\* set parent that links and leaves the export out
MutSetParentNoExport(H, this, parent) ==
  IF SameParent(H, this, parent) THEN H ELSE LinkParent(H, this, parent)

\* set parent
setParent(H, this, parent) ==
  IF SameParent(H, this, parent) THEN H
  ELSE IF parent.kind = "node" \/ isServerApp(parent)
  THEN exportAllHandlers(LinkParent(H, this, parent), this)
  ELSE LinkParent(H, this, parent)

\* set path
setPath(H, this, path) == [H EXCEPT !.path[this] = normalizePath(path, None)]

\* new API({}): path and parent are set to null through their setters,
\* the hooks are null, children and handlers are empty.
newAPI(H) ==
  LET this == H.n + 1 IN
  [H EXCEPT !.n = this,
            !.path[this] = normalizePath(None, None),
            !.title[this] = "",
            !.beforeEachTest[this] = "null",
            !.afterEachTest[this] = "null",
            !.parent[this] = NoParent,
            !.children[this] = <<>>,
            !.handlers[this] = <<>>]

\* new API(parameters) that stores the parent without its setter
MutAPIParentStored(H, parameters) ==
  LET this == H.n + 1 IN
  [H EXCEPT !.n = this,
            !.path[this] = normalizePath(parameters.path, None),
            !.title[this] = parameters.title,
            !.parent[this] = IF parameters.parent.kind \in {"node", "host"}
                             THEN parameters.parent ELSE NoParent]

\* new API(parameters): the path, the title and the parent of the
\* parameters are assigned, the path and the parent through their setters,
\* before children and handlers are made
API(H, parameters) ==
  LET this == H.n + 1
      H1 == setPath([H EXCEPT !.n = this,
                              !.children[this] = <<>>,
                              !.handlers[this] = <<>>],
                    this, parameters.path)
      H2 == [H1 EXCEPT !.title[this] = parameters.title,
                       !.beforeEachTest[this] = "null",
                       !.afterEachTest[this] = "null"]
  IN setParent([H2 EXCEPT !.parent[this] = NoParent], this, parameters.parent)

\* selfapi that applies the overrides and leaves the parent out
MutSelfapiNoParent(H, parent, path, title, child) ==
  LET H1 == IF child = 0 THEN newAPI(H) ELSE H
      c == IF child = 0 THEN H.n + 1 ELSE child
  IN IF ~Falsy(path) THEN setPath(H1, c, path) ELSE H1

\* selfapi(parent, path, title, child) and parent.api(path, title, child):
\* `child` is an existing API or 0 for none; the overrides are applied,
\* then the parent is set.  A first argument that is neither an API nor a
\* server app is not taken off the arguments: path and title are then not
\* found where a string is looked for, and no parent is set.  The title is
\* looked for only after a path that is a string.
selfapiTitled(H, parent, path, title, child) ==
  LET accepted == parent.kind = "node" \/ isServerApp(parent)
      strings == accepted \/ parent.kind = "none"
      H1 == IF child = 0 THEN newAPI(H) ELSE H
      c == IF child = 0 THEN H.n + 1 ELSE child
      H2 == IF ~Falsy(path) /\ strings THEN setPath(H1, c, path) ELSE H1
      H3 == IF title # "" /\ strings /\ path # None
            THEN [H2 EXCEPT !.title[c] = title] ELSE H2
  IN IF accepted THEN setParent(H3, c, parent) ELSE H3

\* selfapi(parent, path, child) and parent.api(path, child)
selfapi(H, parent, path, child) == selfapiTitled(H, parent, path, "", child)

\* the child looked up that is a new child every time
MutSubResourceAlwaysNew(H, this, path) ==
  [heap |-> selfapi(H, NodeRef(this), path, 0), child |-> H.n + 1]

\* var child = this.children[path]; if (!child) child = this.api(path):
\* the heap this leaves, and the child
SubResource(H, this, path) ==
  IF MapHas(H.children[this], path)
  THEN [heap |-> H, child |-> MapGet(H.children[this], path)]
  ELSE [heap |-> selfapi(H, NodeRef(this), path, 0), child |-> H.n + 1]

\* addHandler that stores the handler and leaves the export out
MutAddHandlerNoExport(H, this, method, path0, parameters) ==
  LET path == normalizePath(path0, None) IN
  IF Falsy(path)
  THEN [H EXCEPT !.handlers[this] = MapPut(@, method, parameters)]
  ELSE LET sub == SubResource(H, this, path)
       IN [sub.heap EXCEPT !.handlers[sub.child] = MapPut(@, method, parameters)]

\* API.prototype.addHandler, after `parameters` was found (api.get(spec)
\* is addHandler('get', spec) and becomes addHandler('get', null, spec)).
addHandler(H, this, method, path0, parameters) ==
  LET path == normalizePath(path0, None) IN
  IF Falsy(path)
  THEN exportHandler([H EXCEPT !.handlers[this] = MapPut(@, method, parameters)],
                     this, method, None, parameters)
  ELSE LET sub == SubResource(H, this, path)
       IN exportHandler([sub.heap EXCEPT !.handlers[sub.child] =
                                           MapPut(@, method, parameters)],
                        sub.child, method, None, parameters)

(***************************************************************************)
(* The comparison of a response with the response of an example.  A value  *)
(* of JavaScript is a record of its kind ("undefined", "number", "string", *)
(* "function", "object") and, by the kind, its number, the sequence of the *)
(* characters of the string, or the name of the function or object.        *)
(* exampleResponse is example.response, with the value Undefined for a     *)
(* property it does not have, and its headers as the list of the entries   *)
(* of the object; response is the message received: its statusCode, its    *)
(* headers (Node keeps them under their names in lower case) and the body  *)
(* read to its end.                                                        *)
(***************************************************************************)
Undefined == [kind |-> "undefined", num |-> 0, str |-> <<>>, name |-> ""]
Number(n) == [kind |-> "number", num |-> n, str |-> <<>>, name |-> ""]
String(s) == [kind |-> "string", num |-> 0, str |-> s, name |-> ""]
Function(name) == [kind |-> "function", num |-> 0, str |-> <<>>, name |-> name]
Object(name) == [kind |-> "object", num |-> 0, str |-> <<>>, name |-> name]

\* a !== b is false: two functions or objects of one name are one value
StrictEqual(a, b) == a = b

\* the object {...} of the headers of an example, and no such property
Headers(entries) == [given |-> TRUE, entries |-> entries]
NoHeaders == [given |-> FALSE, entries |-> <<>>]

\* String.prototype.toLowerCase on the names of headers of the model
ToLowerCase(name) == IF name = "X-Test" THEN "x-test" ELSE name

Whitespace == {" ", "\n"}

\* String.prototype.trim
RECURSIVE TrimStart(_)
TrimStart(s) ==
  IF s # <<>> /\ Head(s) \in Whitespace THEN TrimStart(Tail(s)) ELSE s
RECURSIVE TrimEnd(_)
TrimEnd(s) ==
  IF s # <<>> /\ s[Len(s)] \in Whitespace THEN TrimEnd(SubSeq(s, 1, Len(s) - 1)) ELSE s
MutTrimStartOnly(s) == TrimStart(s)

Trim(s) == TrimEnd(TrimStart(s))

\* JSON.stringify(value, null, 2) for the object {} and for a function
JsonStringify(v) ==
  IF v.kind = "function" THEN Undefined ELSE String(<<"{", "}">>)

\* maybeJsonStringify: objects (functions are objects) are stringified
maybeJsonStringify(v) ==
  IF v.kind \in {"object", "function"} THEN JsonStringify(v) ELSE v

NoExampleResponse == [status |-> Undefined, headers |-> NoHeaders, body |-> Undefined]
NoResponse == [statusCode |-> 0, headers |-> <<>>, body |-> <<>>]

\* response[key] for a key in lower case: the message has the properties
\* headers and url under such keys, and no property named as a header is
\* named in the model
MessageProperty(msg, key) ==
  IF key = "headers" THEN Object("headers")
  ELSE IF key = "url" THEN String(<<>>)
  ELSE Undefined

MutExpectedStatusNoDefault(example) == example.status

\* exampleResponse.status || 200
ExpectedStatusCode(example) ==
  IF example.status.kind = "undefined" THEN Number(200) ELSE example.status

\* the loop over the expected headers: all are found equal
HeadersMatch(example, msg) ==
  example.headers.given
    => \A i \in 1..Len(example.headers.entries) :
         StrictEqual(MessageProperty(msg, ToLowerCase(example.headers.entries[i].key)),
                     example.headers.entries[i].val)

\* 'body' in exampleResponse
HasBody(example) == example.body.kind # "undefined"

\* maybeJsonStringify(exampleResponse.body).trim() cannot be evaluated:
\* the value has no method trim
BodyThrows(example) ==
  HasBody(example) /\ maybeJsonStringify(example.body).kind # "string"

\* the variable success when the response has ended
Success(example, msg) ==
  /\ StrictEqual(Number(msg.statusCode), ExpectedStatusCode(example))
  /\ HeadersMatch(example, msg)
  /\ HasBody(example) => Trim(msg.body) = Trim(maybeJsonStringify(example.body).str)

\* summary.actualResponse of a failed example
ActualResponse(example, msg) ==
  [status |-> Number(msg.statusCode),
   headers |-> IF example.headers.given THEN msg.headers ELSE <<>>,
   body |-> IF HasBody(example) THEN String(Trim(msg.body)) ELSE Undefined]

(***************************************************************************)
(* The path of the request of an example.  The strings are sequences of    *)
(* characters here; urlParameters is the list of the entries of the object *)
(* in the order of for-in.                                                 *)
(***************************************************************************)
\* s has pat at position i
MatchesAt(s, pat, i) ==
  i + Len(pat) - 1 <= Len(s) /\ SubSeq(s, i, i + Len(pat) - 1) = pat

\* s.replace(new RegExp(pat, 'g'), val) for a pattern without special
\* characters: every occurrence of pat, from the left, is replaced
RECURSIVE ReplaceLiteral(_, _, _, _)
ReplaceLiteral(s, pat, val, i) ==
  IF i > Len(s) THEN <<>>
  ELSE IF MatchesAt(s, pat, i) THEN val \o ReplaceLiteral(s, pat, val, i + Len(pat))
  ELSE <<s[i]>> \o ReplaceLiteral(s, pat, val, i + 1)

\* the number of ':' that follow one another in s from position i on
RECURSIVE Colons(_, _)
Colons(s, i) == IF i <= Len(s) /\ s[i] = ":" THEN 1 + Colons(s, i + 1) ELSE 0

\* s.replace(new RegExp(':*', 'g'), val): the pattern is any number of ':',
\* none included, and matches at every position of s and at its end
RECURSIVE ReplaceColons(_, _, _)
ReplaceColons(s, val, i) ==
  IF i > Len(s) THEN val
  ELSE IF Colons(s, i) = 0 THEN val \o <<s[i]>> \o ReplaceColons(s, val, i + 1)
  ELSE val \o ReplaceColons(s, val, i + Colons(s, i))

\* path.replace(new RegExp(':' + urlParameter, 'g'), urlValue)
ReplaceParameter(path, urlParameter, urlValue) ==
  IF urlParameter = <<"*">> THEN ReplaceColons(path, urlValue, 1)
  ELSE ReplaceLiteral(path, <<":">> \o urlParameter, urlValue, 1)

\* for (var urlParameter in exampleRequest.urlParameters) ..., from entry i on
RECURSIVE SubstituteParameters(_, _, _)
SubstituteParameters(path, urlParameters, i) ==
  IF i > Len(urlParameters) THEN path
  ELSE SubstituteParameters(
         ReplaceParameter(path, urlParameters[i].key, urlParameters[i].val),
         urlParameters, i + 1)

(***************************************************************************)
(* The self-test engine.  An example is named by a number; the lists       *)
(* results.passed and results.failed hold references to the summary        *)
(* objects of the examples, one summary per call of testHandlerExample.    *)
(*                                                                         *)
(* A hook (beforeEachTest, afterEachTest) of a node is "null", "function"  *)
(* (a function of the user, which calls its continuation once, later, with *)
(* or without an error) or "value" (a value that is not null and not a     *)
(* function).                                                              *)
(*                                                                         *)
(*   run.state    "idle" until test() is called                            *)
(*   run.target   the API test() is called on                              *)
(*   run.tests    the array `tests` of test, the tests not yet started     *)
(*   run.results  the object `results` of test                             *)
(*   run.cbs      the calls callback(error, results) made so far, with     *)
(*                the lists as they were at the call                       *)
(*   run.act[e]   the variables of the call of testHandlerExample for      *)
(*                example e: its `results`, its `summary`, its request     *)
(*                and timer, the continuations its hooks still hold, and   *)
(*                the trace `log` of what it did; starts counts the calls  *)
(*                of testHandlerExample for e, path is requestOptions.path *)
(***************************************************************************)
ExampleIds == 1..MaxExamples
HookKinds == {"null", "function", "value"}
NoError == "none"

\* url.parse(String(baseUrl)): the protocol and the pathname of the URL
BaseUrls ==
  {[protocol |-> "http:", pathname |-> Root],
   [protocol |-> "http:", pathname |-> <<"", "v">>],
   [protocol |-> "ftp:", pathname |-> Root]}

\* url.parse(url.format(u)).pathname: an absent pathname reads back as '/'
UrlPathname(p) == IF p = None THEN Root ELSE p

RECURSIVE ExamplesOf(_, _, _, _, _)
ExamplesOf(this, baseUrl0, method, handler, j) ==
  IF j > Len(handler.examples) THEN <<>>
  ELSE <<[node |-> this, baseUrl |-> baseUrl0, method |-> method,
          handler |-> handler.handler, example |-> handler.examples[j]]>>
       \o ExamplesOf(this, baseUrl0, method, handler, j + 1)

\* the loop of exportAllTests over the node's own handlers, from the i-th
RECURSIVE OwnTests(_, _, _, _)
OwnTests(H, this, baseUrl0, i) ==
  IF i > Len(H.handlers[this]) THEN <<>>
  ELSE ExamplesOf(this, baseUrl0, H.handlers[this][i].key, H.handlers[this][i].val, 1)
       \o OwnTests(H, this, baseUrl0, i + 1)

RECURSIVE exportAllTests(_, _, _)
RECURSIVE ChildTests(_, _, _, _)
RECURSIVE MutChildTestsBoundToParent(_, _, _, _)

\* exportAllTests that gives the children the base URL it was given
MutExportAllTestsSameBase(H, this, baseUrl0) ==
  OwnTests(H, this, baseUrl0, 1)
    \o (IF Len(H.children[this]) = 0 THEN <<>> ELSE ChildTests(H, this, baseUrl0, 1))

\* API.prototype.exportAllTests: the array given to `callback`
exportAllTests(H, this, baseUrl0) ==
  LET childBaseUrl ==
        [baseUrl0 EXCEPT
           !.pathname = UrlPathname(normalizePath(H.path[this], baseUrl0.pathname))]
  IN OwnTests(H, this, baseUrl0, 1)
       \o (IF Len(H.children[this]) = 0 THEN <<>>
           ELSE ChildTests(H, this, childBaseUrl, 1))

\* the tests of the children bound to the node exportAllTests is called on
MutChildTestsBoundToParent(H, this, childBaseUrl, i) ==
  IF i > Len(H.children[this]) THEN <<>>
  ELSE [k \in 1..Len(exportAllTests(H, H.children[this][i].val, childBaseUrl)) |->
          [exportAllTests(H, H.children[this][i].val, childBaseUrl)[k]
             EXCEPT !.node = this]]
       \o MutChildTestsBoundToParent(H, this, childBaseUrl, i + 1)

\* the loop of exportAllTests over the children, from the i-th
ChildTests(H, this, childBaseUrl, i) ==
  IF i > Len(H.children[this]) THEN <<>>
  ELSE exportAllTests(H, H.children[this][i].val, childBaseUrl)
       \o ChildTests(H, this, childBaseUrl, i + 1)

NoSummary == [response |-> FALSE, expectedResponse |-> FALSE, actualResponse |-> "unset"]

NotStarted ==
  [started |-> FALSE, starts |-> 0, node |-> 0, path |-> None,
   before |-> "idle", request |-> "none",
   timer |-> "unset", after |-> 0, passed |-> <<>>, failed |-> <<>>,
   summary |-> NoSummary, log |-> <<>>]

IdleRun ==
  [state |-> "idle", target |-> 0, tests |-> <<>>,
   results |-> [passed |-> <<>>, failed |-> <<>>],
   cbs |-> <<>>,
   act |-> [e \in ExampleIds |-> NotStarted]]

Logged(R, e, event) == [R EXCEPT !.act[e].log = Append(@, event)]

\* In the operators that follow, S is the value of the argument R: binding
\* it over the set {R} makes the argument be evaluated once.

\* callback(error, results) of test
callback(R, error) ==
  CHOOSE next \in {
      [S EXCEPT !.cbs = Append(@, [error |-> error,
                                   passed |-> S.results.passed,
                                   failed |-> S.results.failed])]
    : S \in {R}} : TRUE

RECURSIVE runNextTest(_, _, _)

\* a failed example taken for an error of the run
MutTestDoneAbortOnFailure(H, R, e, error, pick) ==
  LET R1 == [Logged(R, e, "reported") EXCEPT
               !.results.failed = @ \o R.act[e].failed,
               !.results.passed = @ \o R.act[e].passed]
  IN IF error # NoError \/ R.act[e].failed # <<>>
     THEN callback(R1, IF error # NoError THEN error ELSE "example failed")
     ELSE runNextTest(H, R1, pick)

\* the function (error, testResults) that test gives to each test
TestDone(H, R, e, error, pick) ==
  CHOOSE next \in {
      LET R1 == [Logged(S, e, "reported") EXCEPT
                   !.results.failed = @ \o S.act[e].failed,
                   !.results.passed = @ \o S.act[e].passed]
      IN IF error # NoError THEN callback(R1, error)
         ELSE runNextTest(H, R1, pick)
    : S \in {R}} : TRUE

\* a continuation of beforeEachTest that issues the request whatever it is
\* given
MutBeforeNextIgnoresError(H, R, e, error, pick) ==
  [Logged(Logged(R, e, IF error # NoError THEN "beforeEachTest error"
                       ELSE "beforeEachTest done"), e, "request")
     EXCEPT !.act[e].before = "done", !.act[e].request = "sent",
            !.act[e].timer = "armed"]

\* the function (error) that testHandlerExample gives to beforeEachTest
BeforeNext(H, R, e, error, pick) ==
  CHOOSE next \in {
      LET R1 == [Logged(S, e, IF error # NoError THEN "beforeEachTest error"
                              ELSE "beforeEachTest done")
                   EXCEPT !.act[e].before = "done"]
      IN IF error # NoError THEN TestDone(H, R1, e, error, pick)
         ELSE [Logged(R1, e, "request") EXCEPT !.act[e].request = "sent",
                                               !.act[e].timer = "armed"]
    : S \in {R}} : TRUE

\* testHandlerExample without the checks of the protocol and of the hooks
MutTestHandlerExampleUnchecked(H, R, t, pick) ==
  BeforeNext(H, Logged([R EXCEPT !.act[t.example].started = TRUE,
                                 !.act[t.example].starts = @ + 1,
                                 !.act[t.example].node = t.node],
                       t.example, "beforeEachTest"),
             t.example, NoError, pick)

\* API.prototype.testHandlerExample, up to the call of beforeEachTest
testHandlerExample(H, R, t, pick) ==
  CHOOSE next \in {
      LET e == t.example
          R1 == [S EXCEPT !.act[e].started = TRUE, !.act[e].node = t.node,
                          !.act[e].starts = @ + 1,
                          !.act[e].path =
                             UrlPathname(normalizePath(H.path[t.node], t.baseUrl.pathname))]
      IN IF t.baseUrl.protocol \notin {"http:", "https:"}
         THEN TestDone(H, R1, e, "Invalid base site", pick)
         ELSE IF H.beforeEachTest[t.node] = "value"
         THEN TestDone(H, R1, e, "beforeEachTest should be a function", pick)
         ELSE IF H.afterEachTest[t.node] = "value"
         THEN TestDone(H, R1, e, "afterEachTest should be a function", pick)
         ELSE IF H.beforeEachTest[t.node] = "null"
         THEN BeforeNext(H, Logged(R1, e, "beforeEachTest"), e, NoError, pick)
         ELSE [Logged(R1, e, "beforeEachTest") EXCEPT !.act[e].before = "pending"]
    : S \in {R}} : TRUE

\* a pick that leaves the test in the array
MutSpliceKeeps(tests, i) == tests

\* tests.splice(i, 1): what is left in the array
Splice(tests, i) ==
  SubSeq(tests, 1, i - 1) \o SubSeq(tests, i + 1, Len(tests))

\* runNextTest without the call of the callback when no test is left
MutRunNextTestSilent(H, R, pick) ==
  IF R.tests = <<>> THEN R
  ELSE testHandlerExample(H, [R EXCEPT !.tests = Tail(R.tests)], R.tests[1], pick)

\* runNextTest of test; pick is the index Math.random gives
runNextTest(H, R, pick) ==
  CHOOSE next \in {
      IF S.tests = <<>> THEN callback(S, NoError)
      ELSE LET test == S.tests[pick]
               rest == Splice(S.tests, pick)
           IN testHandlerExample(H, [S EXCEPT !.tests = rest], test, pick)
    : S \in {R}} : TRUE

\* afterEachTest left out: the result is reported at once
MutAfterEachSkipped(H, R, e, pick) ==
  TestDone(H, R, e, NoError, pick)

\* afterEachTest(function (error) { callback(error, results); })
AfterEach(H, R, e, pick) ==
  CHOOSE next \in {
      LET R1 == Logged(S, e, "afterEachTest") IN
      IF H.afterEachTest[S.act[e].node] = "null"
      THEN TestDone(H, Logged(R1, e, "afterEachTest done"), e, NoError, pick)
      ELSE [R1 EXCEPT !.act[e].after = @ + 1]
    : S \in {R}} : TRUE

\* a continuation of afterEachTest that does not report the result
MutAfterNextDropped(H, R, e, error, pick) ==
  [Logged(R, e, "afterEachTest done") EXCEPT !.act[e].after = @ - 1]

\* the function (error) that testHandlerExample gives to afterEachTest
AfterNext(H, R, e, error, pick) ==
  CHOOSE next \in {
      LET R1 == [Logged(S, e, IF error # NoError THEN "afterEachTest error"
                              ELSE "afterEachTest done")
                   EXCEPT !.act[e].after = @ - 1]
      IN TestDone(H, R1, e, error, pick)
    : S \in {R}} : TRUE

\* response.on('end'): success is what the comparisons of status, headers
\* and body gave
OnEnd(H, R, e, success, pick) ==
  CHOOSE next \in {
      LET R1 == [Logged(S, e, IF success THEN "response matched"
                              ELSE "response mismatched")
                   EXCEPT !.act[e].request = "ended",
                          !.act[e].timer = IF @ = "armed" THEN "cleared" ELSE @,
                          !.act[e].passed = IF success THEN Append(@, e) ELSE @,
                          !.act[e].failed = IF success THEN @ ELSE Append(@, e),
                          !.act[e].summary.response = IF success THEN TRUE ELSE @,
                          !.act[e].summary.expectedResponse = IF success THEN @ ELSE TRUE,
                          !.act[e].summary.actualResponse =
                             IF success THEN @ ELSE "response"]
      IN AfterEach(H, R1, e, pick)
    : S \in {R}} : TRUE

\* request.on('error'): event is "error" for an error of the connection
\* and "timed out" for the error the timer emits
OnError(H, R, e, event, pick) ==
  CHOOSE next \in {
      LET R1 == [Logged(S, e, event)
                   EXCEPT !.act[e].timer = IF @ = "armed" THEN "cleared" ELSE @,
                          !.act[e].failed = Append(@, e),
                          !.act[e].summary.expectedResponse = TRUE,
                          !.act[e].summary.actualResponse = "error"]
      IN AfterEach(H, R1, e, pick)
    : S \in {R}} : TRUE

\* the function given to setTimeout: request.emit('error', ...); the
\* request itself is left as it is
OnTimeout(H, R, e, pick) ==
  OnError(H, [R EXCEPT !.act[e].timer = "fired"], e, "timed out", pick)

(***************************************************************************)
(* The calls of the model are those that return: a parent link or a        *)
(* children entry that closes a cycle makes exportHandler or               *)
(* exportAllHandlers recurse without end.                                  *)
(***************************************************************************)
Edges(H) ==
  {e \in Nodes \X Nodes :
     \/ e[2] \in MapVals(H.children[e[1]])
     \/ H.parent[e[2]] = NodeRef(e[1])}

RECURSIVE ReachIn(_, _, _)
ReachIn(E, S, k) ==
  IF k = 0 THEN S
  ELSE ReachIn(E, S \cup {e[2] : e \in {d \in E : d[1] \in S}}, k - 1)

Acyclic(H) ==
  LET E == Edges(H) IN
  \A i \in Nodes : i \notin ReachIn(E, {e[2] : e \in {d \in E : d[1] = i}}, MaxNodes)

\* the heap as a call of the interface finds it
Begin(H) == [H EXCEPT !.calls = <<>>, !.thrown = FALSE]

\* the strings given as paths
RawPaths == {None, <<"", "a">>, <<"a", "..", "b">>}

Created(H) == 1..H.n

ParentValues(H) ==
  {NoParent, Other, HostRef("app")} \cup {NodeRef(p) : p \in Created(H)}

(***************************************************************************)
(* The tree being built: one action per call of the public interface.      *)
(***************************************************************************)
\* ncalls counts the calls of the interface, which the model bounds; a call
\* of addHandler that is the k-th call registers the handler function k.
\* last is the latest call: its name, the API it was made on or made, and
\* its arguments.
Call(op, node, parent, path, method, handler) ==
  [op |-> op, node |-> node, parent |-> parent, path |-> path,
   method |-> method, handler |-> handler]

TreeInit ==
  /\ heap = EmptyHeap
  /\ ncalls = 0
  /\ last = Call("none", 0, NoParent, None, "", 0)
  /\ twin = EmptyHeap
  /\ plan = <<>>
  /\ pc = "tree"
  /\ baseUrl = [protocol |-> "http:", pathname |-> Root]
  /\ run = IdleRun
  /\ exampleResponse = NoExampleResponse
  /\ response = NoResponse
  /\ pathCall = NoPathCall
  /\ request = NoRequest

\* selfapi(parent, path), parent.api(path), selfapi(path), selfapi()
Construct ==
  \E parent \in ParentValues(heap), path \in RawPaths :
    /\ ncalls < MaxCalls
    /\ heap.n < MaxNodes
    /\ heap' = selfapi(Begin(heap), parent, path, 0)
    /\ ncalls' = ncalls + 1
    /\ last' = Call("selfapi", heap.n + 1, parent, path, "", 0)
    /\ UNCHANGED <<orderVars, runVars, callVars>>

\* selfapi(parent, path, child), selfapi(path, child) with an existing child
Mount ==
  \E child \in Created(heap), parent \in ParentValues(heap), path \in RawPaths :
    /\ ncalls < MaxCalls
    /\ parent # NodeRef(child)
    /\ LET H2 == IF ~Falsy(path) THEN setPath(heap, child, path) ELSE heap
       IN parent.kind \in {"node", "host"} /\ ~SameParent(H2, child, parent)
            => Acyclic(LinkParent(H2, child, parent))
    /\ heap' = selfapi(Begin(heap), parent, path, child)
    /\ ncalls' = ncalls + 1
    /\ last' = Call("mount", child, parent, path, "", 0)
    /\ UNCHANGED <<orderVars, runVars, callVars>>

\* child.parent = parent
AssignParent ==
  \E child \in Created(heap), parent \in ParentValues(heap) :
    /\ ncalls < MaxCalls
    /\ parent # NodeRef(child)
    /\ ~SameParent(heap, child, parent) => Acyclic(LinkParent(heap, child, parent))
    /\ heap' = setParent(Begin(heap), child, parent)
    /\ ncalls' = ncalls + 1
    /\ last' = Call("parent", child, parent, None, "", 0)
    /\ UNCHANGED <<orderVars, runVars, callVars>>

\* api.addHandler(method, path, parameters), api.get(path, parameters), ...
AddHandler ==
  \E this \in Created(heap), method \in Methods, path \in RawPaths :
   LET parameters == [handler |-> ncalls + 1, examples |-> <<>>] IN
    /\ ncalls < MaxCalls
    /\ \/ Falsy(normalizePath(path, None))
       \/ MapHas(heap.children[this], normalizePath(path, None))
       \/ heap.n < MaxNodes
    /\ heap' = addHandler(Begin(heap), this, method, path, parameters)
    /\ ncalls' = ncalls + 1
    /\ last' = Call("addHandler", this, NoParent, path, method, ncalls + 1)
    /\ UNCHANGED <<orderVars, runVars, callVars>>

TreeNext == Construct \/ Mount \/ AssignParent \/ AddHandler

Spec == TreeInit /\ [][TreeNext]_vars

(***************************************************************************)
(* What the properties of the tree speak of.                               *)
(***************************************************************************)
\* the nodes on the parent chain of n, the root-most first
RECURSIVE ChainOf(_, _, _)
ChainOf(H, n, fuel) ==
  IF H.parent[n].kind = "node" /\ fuel > 0
  THEN Append(ChainOf(H, H.parent[n].ref, fuel - 1), n)
  ELSE <<n>>
Chain(H, n) == ChainOf(H, n, MaxNodes)

\* where the parent chain of n ends: at a server app or at nothing
TopParent(H, n) == H.parent[Chain(H, n)[1]]

\* the paths of the nodes of a chain, written one after the other: every
\* path begins with '/', so that the string that follows adds its segments
RECURSIVE ConcatPaths(_, _, _)
ConcatPaths(H, chain, i) ==
  IF i > Len(chain) THEN EmptyString
  ELSE LET rest == ConcatPaths(H, chain, i + 1)
           own == H.path[chain[i]]
       IN IF own = None THEN rest
          ELSE IF rest = EmptyString THEN own
          ELSE own \o Tail(rest)

\* the full path of n: the normalized concatenation of the paths of its chain
FullPath(H, n) == normalizePath(ConcatPaths(H, Chain(H, n), 1), None)

CallsMade(H) == {H.calls[i] : i \in 1..Len(H.calls)}

Registration(app, method, path, handler) ==
  [app |-> app, method |-> method, path |-> path, handler |-> handler]

\* the nodes kept in the children maps below n, at any depth
RECURSIVE Below(_, _, _)
Below(H, S, k) ==
  IF k = 0 THEN S
  ELSE Below(H, S \cup UNION {MapVals(H.children[x]) : x \in S}, k - 1)
Descendants(H, n) == Below(H, MapVals(H.children[n]), MaxNodes)

\* the same, through the children that have the node keeping them as parent
RECURSIVE LinkedBelow(_, _, _)
LinkedBelow(H, S, k) ==
  IF k = 0 THEN S
  ELSE LinkedBelow(H, S \cup UNION {{c \in MapVals(H.children[x]) :
                                       H.parent[c] = NodeRef(x)} : x \in S}, k - 1)
LinkedDescendants(H, n) == LinkedBelow(H, {n}, MaxNodes) \ {n}

\* every handler of the nodes of S is among the calls made, for `app`
AllExported(H, S, app) ==
  \A d \in S : \A i \in 1..Len(H.handlers[d]) :
    Registration(app, H.handlers[d][i].key, FullPath(H, d),
                 H.handlers[d][i].val.handler) \in CallsMade(H)

Owns(H, S) == \E d \in S : H.handlers[d] # <<>>

HostAssigned ==
  last.op \in {"selfapi", "mount", "parent"} /\ last.parent.kind = "host"

\* C2 as stated: when a node gets a server app as parent, every handler of
\* the node and of every node kept below it in the children maps is
\* registered on the app, under its method, at its full path.
C2_AllReexported ==
  HostAssigned =>
    AllExported(heap, {last.node} \cup Descendants(heap, last.node), last.parent.ref)

\* C2, amended: when a node gets a server app as parent, every handler of
\* the node and of every descendant that has the node keeping it as parent
\* is registered on the app by that assignment, under its method, at its
\* full path, with its handler function.
C2_LinkedReexported ==
  HostAssigned =>
    /\ AllExported(heap, {last.node} \cup LinkedDescendants(heap, last.node),
                   last.parent.ref)
    /\ \A c \in CallsMade(heap) :
         [method |-> c.method, path |-> c.path, handler |-> c.handler]
           \in heap.reg[c.app]

C2_Witness ==
  /\ HostAssigned
  /\ heap.handlers[last.node] # <<>>
  /\ Owns(heap, LinkedDescendants(heap, last.node))
  /\ Len(heap.calls) >= 2

\* the node addHandler stores the handler in: the node itself, or the child
\* kept under the sub-path
Target ==
  IF Falsy(normalizePath(last.path, None)) THEN last.node
  ELSE MapGet(heap.children[last.node], normalizePath(last.path, None))

Stored(n) ==
  /\ MapHas(heap.handlers[n], last.method)
  /\ MapGet(heap.handlers[n], last.method).handler = last.handler

ExportedFrom(n) ==
  Registration(TopParent(heap, n).ref, last.method, FullPath(heap, n), last.handler)
    \in CallsMade(heap)

\* C3 as stated: addHandler on a node whose parent chain ends at a server
\* app registers the method, the full path of the storing node and the
\* handler on that app; on a node whose chain ends at no app it calls no
\* app and the handler is kept in the storing node's map.
C3_ExportsAtOnce ==
  last.op = "addHandler" =>
    IF TopParent(heap, last.node).kind = "host"
    THEN ExportedFrom(Target)
    ELSE heap.calls = <<>> /\ Stored(Target)

\* C3, amended: the same, decided by the parent chain of the node that
\* stores the handler (the node itself, or the child kept under the
\* sub-path): when it ends at a server app the registration is made as
\* addHandler returns, and is the only one; otherwise no app is called; in
\* both cases the handler is kept in the storing node's map.
C3_ExportsAtOnceFromTarget ==
  last.op = "addHandler" =>
    /\ Stored(Target)
    /\ IF TopParent(heap, Target).kind = "host"
       THEN ExportedFrom(Target) /\ Len(heap.calls) = 1
       ELSE heap.calls = <<>>

C3_Witness ==
  /\ last.op = "addHandler"
  /\ ~Falsy(normalizePath(last.path, None))
  /\ TopParent(heap, Target).kind = "host"
  /\ Len(Chain(heap, Target)) >= 2
  /\ heap.calls # <<>>

\* C4: every registration a server app receives carries the full path of
\* the node that owns the handler: the normalized concatenation of the
\* paths of the nodes of its parent chain, which ends at that app.
C4_FullPathRegistered ==
  \A c \in CallsMade(heap) :
    \E n \in Created(heap) :
      /\ MapHas(heap.handlers[n], c.method)
      /\ MapGet(heap.handlers[n], c.method).handler = c.handler
      /\ TopParent(heap, n) = HostRef(c.app)
      /\ c.path = FullPath(heap, n)

C4_Witness ==
  \E c \in CallsMade(heap) : \E n \in Created(heap) :
    /\ MapHas(heap.handlers[n], c.method)
    /\ MapGet(heap.handlers[n], c.method).handler = c.handler
    /\ Len(Chain(heap, n)) = 3
    /\ \A i \in 1..3 : heap.path[Chain(heap, n)[i]] # None
    /\ Len(c.path) = 4

(***************************************************************************)
(* The two orders of assembly.  A plan is a forest of PlanNodes nodes      *)
(* (the path of each, and the parent each is to get: nothing, another node *)
(* or the server app) and a list of PlanAdds addHandler calls; the k-th    *)
(* call registers the handler function k.  `heap` runs the plan as the     *)
(* test 'Express routing' does, the parents first and then the calls of    *)
(* addHandler; `twin` runs it as the test 'Pre-existing handlers exported  *)
(* to new parent' does, the calls of addHandler first.                     *)
(***************************************************************************)
PlanIds == 1..PlanNodes

PlanParents == {NoParent, HostRef("app")} \cup {NodeRef(j) : j \in PlanIds}

RECURSIVE PlanChainEnds(_, _, _)
PlanChainEnds(par, i, fuel) ==
  IF par[i].kind # "node" THEN TRUE
  ELSE IF fuel = 0 THEN FALSE
  ELSE PlanChainEnds(par, par[i].ref, fuel - 1)

\* no two nodes to be kept under one parent have the same path
PlanIsTree(pl) ==
  /\ \A i \in PlanIds : PlanChainEnds(pl.par, i, PlanNodes)
  /\ \A i, j \in PlanIds :
       i # j /\ pl.par[i].kind = "node" /\ pl.par[i] = pl.par[j]
         => normalizePath(pl.paths[i], None) # normalizePath(pl.paths[j], None)

\* the children the calls of the plan make under their sub-paths
PlanSubPaths(pl) ==
  {<<pl.adds[k].node, normalizePath(pl.adds[k].path, None)>> :
     k \in {x \in 1..PlanAdds : ~Falsy(normalizePath(pl.adds[x].path, None))}}

Plans ==
  {pl \in [paths : [PlanIds -> RawPaths],
           par : [PlanIds -> PlanParents],
           adds : [1..PlanAdds -> [node : PlanIds, method : Methods, path : RawPaths]]] :
     /\ PlanIsTree(pl)
     /\ PlanNodes + Cardinality(PlanSubPaths(pl)) <= MaxNodes}

\* selfapi(path) for each node of the plan
RECURSIVE Unattached(_, _)
Unattached(paths, k) ==
  IF k = 0 THEN EmptyHeap
  ELSE selfapi(Unattached(paths, k - 1), NoParent, paths[k], 0)

PlanAttach(H, i) == selfapi(Begin(H), plan.par[i], None, i)
PlanAdd(H, k) ==
  addHandler(Begin(H), plan.adds[k].node, plan.adds[k].method, plan.adds[k].path,
             [handler |-> k, examples |-> <<>>])

OrderInit ==
  /\ plan \in Plans
  /\ heap = Unattached(plan.paths, PlanNodes)
  /\ twin = Unattached(plan.paths, PlanNodes)
  /\ ncalls = 0
  /\ pc = "attach first"
  /\ last = Call("none", 0, NoParent, None, "", 0)
  /\ baseUrl = [protocol |-> "http:", pathname |-> Root]
  /\ run = IdleRun
  /\ exampleResponse = NoExampleResponse
  /\ response = NoResponse
  /\ pathCall = NoPathCall
  /\ request = NoRequest

\* attach-before-populate: selfapi(parent, child) for each node ...
AttachFirstAttach ==
  /\ pc = "attach first" /\ ncalls < PlanNodes
  /\ heap' = PlanAttach(heap, ncalls + 1)
  /\ ncalls' = ncalls + 1
  /\ UNCHANGED <<twin, plan, pc, last, runVars, callVars>>

\* ... and then the calls of addHandler
AttachFirstAdd ==
  /\ pc = "attach first" /\ ncalls >= PlanNodes
  /\ heap' = PlanAdd(heap, ncalls - PlanNodes + 1)
  /\ ncalls' = IF ncalls + 1 = PlanNodes + PlanAdds THEN 0 ELSE ncalls + 1
  /\ pc' = IF ncalls + 1 = PlanNodes + PlanAdds THEN "populate first" ELSE pc
  /\ UNCHANGED <<twin, plan, last, runVars, callVars>>

\* populate-before-attach: the calls of addHandler ...
PopulateFirstAdd ==
  /\ pc = "populate first" /\ ncalls < PlanAdds
  /\ twin' = PlanAdd(twin, ncalls + 1)
  /\ ncalls' = ncalls + 1
  /\ UNCHANGED <<heap, plan, pc, last, runVars, callVars>>

\* ... and then selfapi(parent, child) for each node
PopulateFirstAttach ==
  /\ pc = "populate first" /\ ncalls >= PlanAdds
  /\ twin' = PlanAttach(twin, ncalls - PlanAdds + 1)
  /\ ncalls' = IF ncalls + 1 = PlanNodes + PlanAdds THEN 0 ELSE ncalls + 1
  /\ pc' = IF ncalls + 1 = PlanNodes + PlanAdds THEN "assembled" ELSE pc
  /\ UNCHANGED <<heap, plan, last, runVars, callVars>>

OrderNext ==
  AttachFirstAttach \/ AttachFirstAdd \/ PopulateFirstAdd \/ PopulateFirstAttach

SpecOrder == OrderInit /\ [][OrderNext]_vars

DistinctTargets(pl) ==
  \A j, k \in 1..PlanAdds :
    j # k =>
      \/ pl.adds[j].node # pl.adds[k].node
      \/ pl.adds[j].method # pl.adds[k].method
      \/ normalizePath(pl.adds[j].path, None) # normalizePath(pl.adds[k].path, None)

\* no call registers under a sub-path that is the path of a node the plan
\* puts under the same node
NoSubPathClash(pl) ==
  \A k \in 1..PlanAdds : \A i \in PlanIds :
    pl.par[i] = NodeRef(pl.adds[k].node)
      => normalizePath(pl.adds[k].path, None) # normalizePath(pl.paths[i], None)

ExamplesIn(n) == IF n < 0 THEN 0 ELSE n

RunShapes ==
  {c \in [1..3 -> -1..MaxExamples] :
     ExamplesIn(c[1]) + ExamplesIn(c[2]) + ExamplesIn(c[3]) <= MaxExamples}

\* the examples first, first + 1, ... of a handler with n examples
ExampleList(first, n) == [i \in 1..ExamplesIn(n) |-> first + i - 1]

\* api.addHandler(method, path, {handler: ..., examples: [...]}) when the
\* shape has the handler: n examples from `first` on
Registered(H, method, path, handler, first, n) ==
  IF n < 0 THEN H
  ELSE addHandler(H, 1, method, path,
                  [handler |-> handler, examples |-> ExampleList(first, n)])

TreeOf(c) ==
  Begin(Registered(
          Registered(
            Registered(selfapi(EmptyHeap, HostRef("app"), <<"", "a">>, 0),
                       "get", None, 1, 1, c[1]),
            "post", None, 2, 1 + ExamplesIn(c[1]), c[2]),
          "get", <<"", "b">>, 3, 1 + ExamplesIn(c[1]) + ExamplesIn(c[2]), c[3]))

\* api.beforeEachTest = before; api.afterEachTest = after
WithHooks(H, api, before, after) ==
  [H EXCEPT !.beforeEachTest[api] = before, !.afterEachTest[api] = after]

RunInit ==
  /\ \E c \in RunShapes : \E api \in Created(TreeOf(c)) :
       \E before, after \in HookKinds :
         heap = WithHooks(TreeOf(c), api, before, after)
  /\ baseUrl \in BaseUrls
  /\ \E target \in Created(heap) : run = [IdleRun EXCEPT !.target = target]
  /\ ncalls = 0
  /\ last = Call("none", 0, NoParent, None, "", 0)
  /\ twin = EmptyHeap
  /\ plan = <<>>
  /\ pc = "run"
  /\ exampleResponse = NoExampleResponse
  /\ response = NoResponse
  /\ pathCall = NoPathCall
  /\ request = NoRequest

\* the indices Math.floor(Math.random() * tests.length) can give
Picks(tests) == IF tests = <<>> THEN {1} ELSE 1..Len(tests)

\* the errors a hook of the user reports
HookErrors == {"hook failed"}

\* api.test(baseUrl, callback)
StartTest ==
  /\ pc = "run" /\ run.state = "idle"
  /\ LET tests == exportAllTests(heap, run.target, baseUrl) IN
       \E pick \in Picks(tests) :
         run' = runNextTest(heap, [run EXCEPT !.state = "running", !.tests = tests], pick)
  /\ UNCHANGED <<treeVars, orderVars, baseUrl, wireVars, callVars>>

\* a beforeEachTest of the user calls its continuation
BeforeContinue ==
  /\ pc = "run"
  /\ \E e \in ExampleIds, error \in {NoError} \cup HookErrors :
       /\ run.act[e].before = "pending"
       /\ run' = BeforeNext(heap, run, e, error, 1)
  /\ UNCHANGED <<treeVars, orderVars, baseUrl, wireVars, callVars>>

\* the response of a request in flight has been received to its end
Response ==
  /\ pc = "run"
  /\ \E e \in ExampleIds, success \in BOOLEAN, pick \in Picks(run.tests) :
       /\ run.act[e].request = "sent"
       /\ run' = OnEnd(heap, run, e, success, pick)
  /\ UNCHANGED <<treeVars, orderVars, baseUrl, wireVars, callVars>>

\* a request in flight fails: the connection is refused, reset, ...
ConnectionError ==
  /\ pc = "run"
  /\ \E e \in ExampleIds, pick \in Picks(run.tests) :
       /\ run.act[e].request = "sent"
       /\ run' = OnError(heap, [run EXCEPT !.act[e].request = "failed"], e, "error", pick)
  /\ UNCHANGED <<treeVars, orderVars, baseUrl, wireVars, callVars>>

\* the timer of a request runs out
Timeout ==
  /\ pc = "run"
  /\ \E e \in ExampleIds, pick \in Picks(run.tests) :
       /\ run.act[e].timer = "armed"
       /\ run' = OnTimeout(heap, run, e, pick)
  /\ UNCHANGED <<treeVars, orderVars, baseUrl, wireVars, callVars>>

\* an afterEachTest of the user calls its continuation
AfterContinue ==
  /\ pc = "run"
  /\ \E e \in ExampleIds, error \in {NoError} \cup HookErrors, pick \in Picks(run.tests) :
       /\ run.act[e].after > 0
       /\ run' = AfterNext(heap, run, e, error, pick)
  /\ UNCHANGED <<treeVars, orderVars, baseUrl, wireVars, callVars>>

RunNext ==
  StartTest \/ BeforeContinue \/ Response \/ ConnectionError \/ Timeout \/ AfterContinue

SpecRun == RunInit /\ [][RunNext]_vars

(***************************************************************************)
(* What the claims about a run speak of.                                   *)
(***************************************************************************)
\* total: the (method, example) pairs of the tested node and its
\* descendants, as exportAllTests schedules them
Total == Len(exportAllTests(heap, run.target, baseUrl))

Scheduled == {exportAllTests(heap, run.target, baseUrl)[i].example : i \in 1..Total}

Count(log, event) == Cardinality({i \in 1..Len(log) : log[i] = event})

Occurrences(list, e) == Cardinality({i \in 1..Len(list) : list[i] = e})

Has(log, event) == \E i \in 1..Len(log) : log[i] = event

\* the events that give an example its verdict
Verdicts == {"response matched", "response mismatched", "error", "timed out"}

\* the event at position i of the log is followed by a report of the result
ReportedAfter(log, i) == \E j \in (i + 1)..Len(log) : log[j] = "reported"

\* the run has a fault of its configuration
Faulty(e) ==
  \/ baseUrl.protocol \notin {"http:", "https:"}
  \/ heap.beforeEachTest[run.act[e].node] = "value"
  \/ heap.afterEachTest[run.act[e].node] = "value"

\* C5, read for the calls of the completion callback that carry no error:
\* whenever test calls its completion callback, passed.length +
\* failed.length is the number of (method, example) pairs of the tested
\* node and its descendants.
C5_CountAtCompletion ==
  \A i \in 1..Len(run.cbs) :
    run.cbs[i].error = NoError
      => Len(run.cbs[i].passed) + Len(run.cbs[i].failed) = Total

\* C6: an example whose response does not match never aborts the run: the
\* completion callback carries an error only when a hook reported one or
\* the configuration is at fault; a call of the callback without error
\* comes after every scheduled example was started; an example reported
\* after a response that did not match is in failed, one reported after a
\* response that matched is in passed, and passed and failed hold no
\* example without such an outcome; as long as no timer has fired, the
\* callback without error is given every scheduled example once, in the
\* list of its outcome.
C6_FailureDoesNotAbort ==
  /\ \A i \in 1..Len(run.cbs) :
       /\ run.cbs[i].error # NoError =>
            \E e \in ExampleIds :
              /\ run.act[e].started
              /\ \/ Faulty(e)
                 \/ Has(run.act[e].log, "beforeEachTest error")
                 \/ Has(run.act[e].log, "afterEachTest error")
       /\ run.cbs[i].error = NoError =>
            \A e \in Scheduled : run.act[e].started
  /\ \A e \in ExampleIds : \A i \in 1..Len(run.act[e].log) :
       /\ run.act[e].log[i] = "response mismatched" /\ ReportedAfter(run.act[e].log, i)
            => Occurrences(run.results.failed, e) > 0
       /\ run.act[e].log[i] = "response matched" /\ ReportedAfter(run.act[e].log, i)
            => Occurrences(run.results.passed, e) > 0
  /\ \A e \in ExampleIds :
       /\ Occurrences(run.results.passed, e) > 0
            => Has(run.act[e].log, "response matched")
       /\ Occurrences(run.results.failed, e) > 0
            => \E v \in Verdicts \ {"response matched"} : Has(run.act[e].log, v)
  /\ (\A g \in ExampleIds : run.act[g].timer # "fired") =>
       \A i \in 1..Len(run.cbs) :
         run.cbs[i].error = NoError =>
           \A e \in Scheduled :
             /\ Occurrences(run.cbs[i].passed, e) + Occurrences(run.cbs[i].failed, e) = 1
             /\ Occurrences(run.cbs[i].passed, e) = 1
                  <=> Has(run.act[e].log, "response matched")

\* a run without error and without timer: one example failed on its
\* response, another passed, and the callback was given both
C6_Witness ==
  \E i \in 1..Len(run.cbs) : \E e, f \in ExampleIds :
    /\ run.cbs[i].error = NoError
    /\ e # f
    /\ Has(run.act[e].log, "response mismatched")
    /\ Has(run.act[f].log, "response matched")
    /\ Occurrences(run.cbs[i].failed, e) = 1
    /\ Occurrences(run.cbs[i].passed, f) = 1
    /\ \A g \in ExampleIds : run.act[g].timer # "fired"

\* C7: every executed example yields one verdict: once its timer has fired,
\* a response or error arriving later adds no second entry to passed or
\* failed and does not resume the orchestrator a second time.
C7_OneVerdict ==
  \A e \in ExampleIds :
    /\ Len(run.act[e].passed) + Len(run.act[e].failed) <= 1
    /\ Occurrences(run.results.passed, e) + Occurrences(run.results.failed, e) <= 1
    /\ Count(run.act[e].log, "reported") <= 1

\* C8: test calls its completion callback once per run, and after the
\* call no further example is started.
C8_CallbackOnce ==
  /\ Len(run.cbs) <= 1
  /\ run.cbs # <<>> =>
       \A e \in ExampleIds :
         run.act[e].started =>
           \/ Has(run.act[e].log, "reported")
           \/ Faulty(e)

\* C9, read with "the response was fully received" standing for the end
\* of the request, by a response or by an error: for every example whose
\* beforeEachTest was called, beforeEachTest is called once and first,
\* the request is issued after beforeEachTest called its continuation,
\* afterEachTest is called once and after the end of the request, and the
\* result is reported after afterEachTest called its continuation.
C9_EventOrder ==
  \A e \in ExampleIds :
    LET log == run.act[e].log IN
    Has(log, "beforeEachTest") =>
      /\ log[1] = "beforeEachTest"
      /\ Count(log, "beforeEachTest") = 1
      /\ \A i \in 1..Len(log) :
           log[i] = "request" => \E j \in 1..(i - 1) : log[j] = "beforeEachTest done"
      /\ Count(log, "afterEachTest") <= 1
      /\ \A i \in 1..Len(log) :
           log[i] = "afterEachTest" => \E j \in 1..(i - 1) : log[j] \in Verdicts
      /\ \A i \in 1..Len(log) :
           log[i] = "reported" /\ (\E j \in 1..(i - 1) : log[j] \in Verdicts)
             => \E j \in 1..(i - 1) :
                  log[j] \in {"afterEachTest done", "afterEachTest error"}

\* C10 as stated: afterEachTest runs after every example for which
\* beforeEachTest was called, whatever the outcome, an error reported by
\* beforeEachTest included: no such example is reported before afterEachTest
\* ran.
C10_AfterEachAlways ==
  \A e \in ExampleIds :
    LET log == run.act[e].log IN
    \A i \in 1..Len(log) :
      log[i] = "reported" /\ Has(log, "beforeEachTest")
        => \E j \in 1..(i - 1) : log[j] = "afterEachTest"

\* C10, amended: afterEachTest is called right after every verdict of an
\* example whose request was issued (response matched or not, error of the
\* connection, timeout), and the result is reported only after afterEachTest
\* called its continuation; an example whose beforeEachTest reported an
\* error is reported without afterEachTest having run.
C10_AfterEachVerdict ==
  \A e \in ExampleIds :
    LET log == run.act[e].log IN
    /\ \A i \in 1..Len(log) :
         log[i] \in Verdicts => i < Len(log) /\ log[i + 1] = "afterEachTest"
    /\ \A i \in 1..Len(log) :
         log[i] = "reported" /\ Has(log, "request")
           => \E j \in 1..(i - 1) :
                log[j] \in {"afterEachTest done", "afterEachTest error"}
    /\ Count(log, "afterEachTest") = Cardinality({i \in 1..Len(log) : log[i] \in Verdicts})
    /\ Has(log, "beforeEachTest error") =>
         ~Has(log, "afterEachTest") /\ ~Has(log, "request")

\* one example was reported after an error of its connection and its
\* afterEachTest, the next after an error of its beforeEachTest
C10_Witness ==
  \E e, f \in ExampleIds :
    /\ e # f
    /\ Has(run.act[e].log, "error")
    /\ Has(run.act[e].log, "afterEachTest done")
    /\ Has(run.act[e].log, "reported")
    /\ Has(run.act[f].log, "beforeEachTest error")
    /\ Has(run.act[f].log, "reported")
    /\ run.cbs # <<>>

\* the errors of a fault of the configuration
FaultErrors ==
  {"Invalid base site", "beforeEachTest should be a function",
   "afterEachTest should be a function"}

\* C11: a structural fault met while running an example (a base URL that
\* is neither http nor https, a hook that is set and is not a function)
\* aborts the run: the step that starts the example issues no request and
\* calls no hook for it, starts no other example, calls the completion
\* callback with the fault as its error and with lists that do not hold
\* the example and hold every entry reported before.
C11_FaultAborts ==
  [][\A e \in ExampleIds :
       ~run.act[e].started /\ run'.act[e].started /\ Faulty(e)' =>
         /\ run'.act[e].request = "none"
         /\ run'.act[e].log = <<"reported">>
         /\ \A f \in ExampleIds \ {e} : run'.act[f].starts = run.act[f].starts
         /\ Len(run'.cbs) = Len(run.cbs) + 1
         /\ Last(run'.cbs).error \in FaultErrors
         /\ Last(run'.cbs).passed = run'.results.passed
         /\ Last(run'.cbs).failed = run'.results.failed
         /\ Occurrences(run'.results.passed, e) = 0
         /\ Occurrences(run'.results.failed, e) = 0
         /\ \A f \in ExampleIds \ {e} :
              /\ Occurrences(run'.results.passed, f) >= Occurrences(run.results.passed, f)
              /\ Occurrences(run'.results.failed, f) >= Occurrences(run.results.failed, f)
              /\ Has(run'.act[f].log, "reported") =>
                   /\ Occurrences(run'.results.passed, f) >= Len(run'.act[f].passed)
                   /\ Occurrences(run'.results.failed, f) >= Len(run'.act[f].failed)
    ]_vars

\* the run was aborted by a fault after one example had passed
C11_Witness ==
  \E e, f \in ExampleIds :
    /\ e # f
    /\ run.act[e].started /\ Faulty(e)
    /\ run.act[f].passed = <<f>>
    /\ Len(run.cbs) = 1
    /\ run.cbs[1].error \in FaultErrors
    /\ run.cbs[1].passed = <<f>>
    /\ run.cbs[1].failed = <<>>

\* C12: a connection error, or a request that exceeds the 10-second
\* timeout, is captured as one entry in failed whose actualResponse is
\* error-shaped, and is no error of the run: once such an example is
\* reported it is once in failed and not in passed, its summary holds the
\* error, and no call of the completion callback carries an error other
\* than one of a hook or of the configuration.
C12_ErrorIsOneFailure ==
  /\ \A e \in ExampleIds :
       LET log == run.act[e].log IN
       (\E i \in 1..Len(log) : log[i] \in {"error", "timed out"} /\ ReportedAfter(log, i))
         => /\ Occurrences(run.results.failed, e) = 1
            /\ Occurrences(run.results.passed, e) = 0
            /\ run.act[e].summary.actualResponse = "error"
  /\ \A i \in 1..Len(run.cbs) :
       run.cbs[i].error \in {NoError} \cup HookErrors \cup FaultErrors

(***************************************************************************)
(* The run under the conditions of its termination: a hook that was called *)
(* calls its continuation, and a request that was issued ends, by its      *)
(* response, by an error or by its timer.                                  *)
(***************************************************************************)
FairInit ==
  /\ RunInit
  /\ baseUrl = [protocol |-> "http:", pathname |-> Root]
  /\ run.target = 1
  /\ Total = MaxExamples

SpecRunFair ==
  /\ FairInit /\ [][RunNext]_vars
  /\ WF_vars(BeforeContinue)
  /\ WF_vars(AfterContinue)
  /\ WF_vars(Response \/ ConnectionError \/ Timeout)

\* C13: provided every hook calls its continuation and every request that
\* was issued ends (response, error or timeout), a run started by test is
\* eventually completed: the completion callback is eventually called.
C13_EventuallyCompleted ==
  (run.state = "running") ~> (run.cbs # <<>>)

\* a run over two examples, with hooks of the user, has been completed
C13_Witness ==
  /\ Total = MaxExamples
  /\ run.cbs # <<>>
  /\ \A e \in ExampleIds :
       /\ run.act[e].started
       /\ heap.beforeEachTest[run.act[e].node] = "function"
       /\ heap.afterEachTest[run.act[e].node] = "function"
       /\ Has(run.act[e].log, "request")
       /\ Has(run.act[e].log, "afterEachTest done")
       /\ Has(run.act[e].log, "reported")

\* C14: a subtree without examples (no handlers, or handlers whose lists
\* of examples are empty, at the tested node and below) is completed by
\* the call of test itself: the completion callback has been called once,
\* without error, with passed = [] and failed = [] (total is 0), and no
\* example was started: no request, no hook.
C14_EmptyRunCompletes ==
  Total = 0 /\ run.state = "running" =>
    /\ run.cbs = <<[error |-> NoError, passed |-> <<>>, failed |-> <<>>]>>
    /\ \A e \in ExampleIds : run.act[e] = NotStarted

\* test was called on a node that has a handler without examples and a
\* child that has one too
C14_Witness ==
  /\ Total = 0 /\ run.state = "running"
  /\ run.cbs # <<>>
  /\ heap.handlers[run.target] # <<>>
  /\ \E c \in MapVals(heap.children[run.target]) : heap.handlers[c] # <<>>
  /\ heap.beforeEachTest[run.target] = "function"

\* the nodes from r down to d, d being r or a node below r
DownTo(H, r, d) ==
  LET chain == Chain(H, d)
      k == CHOOSE i \in 1..Len(chain) : chain[i] = r
  IN SubSeq(chain, k, Len(chain))

\* the examples of the handlers of the nodes in S
ExamplesOwned(H, S) ==
  UNION {UNION {{h.examples[j] : j \in 1..Len(h.examples)} : h \in MapVals(H.handlers[n])}
           : n \in S}

\* C15: for test(baseUrl) called on node r, the request of an example
\* owned by r or by a node d below r is sent to the path of baseUrl
\* followed by the normalized concatenation of the paths of the nodes from
\* r down to d, and the examples scheduled are those of r and of the nodes
\* below r.
C15_RequestPath ==
  run.state = "running" =>
    /\ \A e \in ExampleIds :
         run.act[e].started =>
           /\ run.act[e].node \in {run.target} \cup Descendants(heap, run.target)
           /\ run.act[e].path =
                UrlPathname(normalizePath(
                  ConcatPaths(heap, DownTo(heap, run.target, run.act[e].node), 1),
                  baseUrl.pathname))
    /\ Scheduled = ExamplesOwned(heap, {run.target} \cup Descendants(heap, run.target))
    /\ Total = Cardinality(Scheduled)

\* the request of an example of the child under '/b' was issued for a run
\* of its parent at '/a' with a base URL whose path is '/v'
C15_Witness ==
  \E e \in ExampleIds :
    /\ run.act[e].request = "sent"
    /\ run.act[e].node # run.target
    /\ baseUrl.pathname = <<"", "v">>
    /\ run.act[e].path = <<"", "v", "a", "b">>

\* the examples of the tests not yet started
Waiting == [i \in 1..Len(run.tests) |-> run.tests[i].example]

\* C16: whatever the picks, every scheduled example is either waiting in
\* the array of tests, once, or has been started, once, never both; its
\* request is issued at most once, so that a failed example is not tried
\* again; and when the completion callback is called without error no
\* example is left waiting: each was run once.
C16_EachExampleOnce ==
  run.state = "running" =>
    /\ \A e \in ExampleIds :
         /\ run.act[e].starts + Occurrences(Waiting, e) = IF e \in Scheduled THEN 1 ELSE 0
         /\ Count(run.act[e].log, "request") <= 1
         /\ Count(run.act[e].log, "beforeEachTest") <= 1
    /\ (\E i \in 1..Len(run.cbs) : run.cbs[i].error = NoError) =>
         /\ run.tests = <<>>
         /\ \A e \in Scheduled : run.act[e].starts = 1

\* a run of two examples was completed without error, one example having
\* failed, the other having passed after it
C16_Witness ==
  /\ Total = MaxExamples
  /\ Len(run.cbs) = 1 /\ run.cbs[1].error = NoError
  /\ Len(run.cbs[1].failed) = 1 /\ Len(run.cbs[1].passed) = 1
  /\ \A e \in ExampleIds :
       run.act[e].starts = 1 /\ Count(run.act[e].log, "request") = 1

(***************************************************************************)
(* The comparison of one response.  The tree under test has one handler    *)
(* with one example, and no hooks; the response of its request is received *)
(* to its end before the timer of the request runs out.                    *)
(***************************************************************************)
ExampleStatuses == {Undefined, Number(200), Number(418), Function("is2xx")}

ExampleHeaders ==
  {NoHeaders,
   Headers(<<[key |-> "X-Test", val |-> String(<<"v">>)]>>),
   Headers(<<[key |-> "x-test", val |-> Function("hasV")]>>)}

ExampleBodies ==
  {Undefined, String(<<"a">>), String(<<"a", "\n">>), Function("isA"), Object("empty")}

ExampleResponses ==
  [status : ExampleStatuses, headers : ExampleHeaders, body : ExampleBodies]

StatusCodes == {200, 201, 404, 418}

ResponseHeaders ==
  {<<>>,
   <<[key |-> "x-test", val |-> String(<<"v">>)]>>,
   <<[key |-> "x-test", val |-> String(<<"w">>)]>>}

ResponseBodies == {<<>>, <<"a">>, <<" ", "a">>, <<"b">>, <<"{", "}">>}

Responses ==
  [statusCode : StatusCodes, headers : ResponseHeaders, body : ResponseBodies]

CompareInit ==
  /\ heap = TreeOf(<<1, -1, -1>>)
  /\ baseUrl = [protocol |-> "http:", pathname |-> Root]
  /\ run = [IdleRun EXCEPT !.target = 1]
  /\ exampleResponse \in ExampleResponses
  /\ response = NoResponse
  /\ pathCall = NoPathCall
  /\ request = NoRequest
  /\ ncalls = 0
  /\ last = Call("none", 0, NoParent, None, "", 0)
  /\ twin = EmptyHeap
  /\ plan = <<>>
  /\ pc = "run"

\* the function given to client.request, and response.on('end'): the
\* response msg is compared with the response of the example; an exception
\* thrown in the function is caught by nothing
Receive ==
  /\ pc = "run" /\ run.state = "running"
  /\ run.act[1].request = "sent"
  /\ \E msg \in Responses :
       /\ response' = msg
       /\ run' = IF BodyThrows(exampleResponse)
                 THEN [Logged(run, 1, "uncaught exception") EXCEPT !.state = "crashed"]
                 ELSE OnEnd(heap, run, 1, Success(exampleResponse, msg), 1)
  /\ UNCHANGED <<treeVars, orderVars, baseUrl, exampleResponse, callVars>>

CompareNext == StartTest \/ Receive

SpecCompare == CompareInit /\ [][CompareNext]_vars

\* the run of the one example has completed with the response compared
Compared == response # NoResponse /\ run.state # "crashed"

\* the example is reported as passed, as failed
ReportedPassed ==
  Len(run.cbs) = 1 /\ run.cbs[1].passed = <<1>> /\ run.cbs[1].failed = <<>>
ReportedFailed ==
  Len(run.cbs) = 1 /\ run.cbs[1].passed = <<>> /\ run.cbs[1].failed = <<1>>

\* the expected response declares a literal status, or none
LiteralStatus == exampleResponse.status.kind \in {"undefined", "number"}

\* the status a literal expectation stands for
StatusExpected ==
  IF exampleResponse.status.kind = "number" THEN exampleResponse.status.num ELSE 200

\* C17: once the response of an example with a literal (or no) expected
\* status has been compared, the example is reported as passed only if the
\* status of the response is the expected status (200 when none is
\* declared), and, when it declares neither headers nor body, it is reported
\* as passed if the status is the expected one and as failed otherwise; an
\* example expecting 418 answered with 200 is reported as the one failure,
\* with actualResponse.status = 200, and nothing passed.
C17_LiteralStatus ==
  Compared /\ LiteralStatus
    => /\ ReportedPassed \/ ReportedFailed
       /\ ReportedPassed => response.statusCode = StatusExpected
       /\ ~exampleResponse.headers.given /\ ~HasBody(exampleResponse)
            => (ReportedPassed <=> response.statusCode = StatusExpected)
       /\ exampleResponse.status = Number(418) /\ response.statusCode = 200
            => /\ ReportedFailed
               /\ run.act[1].summary.actualResponse = "response"
               /\ ActualResponse(exampleResponse, response).status = Number(200)

C17_Witness ==
  /\ Compared
  /\ exampleResponse.status = Number(418) /\ response.statusCode = 200
  /\ ~exampleResponse.headers.given /\ ~HasBody(exampleResponse)
  /\ ReportedFailed
  /\ ActualResponse(exampleResponse, response).status = Number(200)

\* the predicate s >= 200 && s < 300 of the example, applied to a status
Is2xx(n) == n >= 200 /\ n < 300

\* C18: once the response of an example whose expected status is the
\* predicate s >= 200 && s < 300, and that declares neither headers nor
\* body, has been compared, the example is reported as passed exactly when
\* the predicate holds of the status of the response: passed on 201, failed
\* on 404.
C18_PredicateStatus ==
  /\ Compared
  /\ exampleResponse.status = Function("is2xx")
  /\ ~exampleResponse.headers.given /\ ~HasBody(exampleResponse)
  => (ReportedPassed <=> Is2xx(response.statusCode))

\* the header of the response under a name, whatever the case of the name:
\* its value, or Undefined when the response has no such header
ActualHeader(msg, name) ==
  IF \E i \in 1..Len(msg.headers) : msg.headers[i].key = ToLowerCase(name)
  THEN (CHOOSE h \in {msg.headers[i] : i \in 1..Len(msg.headers)} :
          h.key = ToLowerCase(name)).val
  ELSE Undefined

\* every expected header is a literal
LiteralHeaders ==
  \A i \in 1..Len(exampleResponse.headers.entries) :
    exampleResponse.headers.entries[i].val.kind = "string"

\* C19: once the response of an example with literal expectations has been
\* compared, the example is reported as passed only if every header of its
\* expected response equals the header of that name in the response, and,
\* when its status matches and it declares no body, it is reported as passed
\* if every expected header equals the actual one.
C19_LiteralHeaders ==
  /\ Compared /\ LiteralStatus
  /\ exampleResponse.headers.given /\ LiteralHeaders
  /\ ~HasBody(exampleResponse)
  /\ response.statusCode = StatusExpected
  => (ReportedPassed <=>
        \A i \in 1..Len(exampleResponse.headers.entries) :
          ActualHeader(response, exampleResponse.headers.entries[i].key)
            = exampleResponse.headers.entries[i].val)

\* a string without its leading and trailing whitespace: what lies between
\* its first and its last character that is not whitespace
Stripped(s) ==
  LET keep == {i \in 1..Len(s) : s[i] \notin Whitespace} IN
    IF keep = {} THEN <<>>
    ELSE SubSeq(s, CHOOSE i \in keep : \A j \in keep : i <= j,
                   CHOOSE i \in keep : \A j \in keep : i >= j)

\* C20: once the response of an example has been compared, an example that
\* declares a literal body is reported as passed only if its body and the
\* body of the response are equal once both are stripped of leading and
\* trailing whitespace; when the status matches and no headers are declared,
\* an example without body is reported as passed whatever the body of the
\* response, and one with a literal body is reported as passed if the
\* stripped bodies are equal.
C20_BodyCheck ==
  /\ Compared
     /\ exampleResponse.body.kind = "string"
     /\ ReportedPassed
     => Stripped(response.body) = Stripped(exampleResponse.body.str)
  /\ Compared /\ LiteralStatus
     /\ response.statusCode = StatusExpected
     /\ ~exampleResponse.headers.given
     => /\ ~HasBody(exampleResponse) => ReportedPassed
        /\ exampleResponse.body.kind = "string"
             /\ Stripped(response.body) = Stripped(exampleResponse.body.str)
             => ReportedPassed

C20_Witness ==
  /\ Compared /\ ReportedPassed
  /\ exampleResponse.body = String(<<"a", "\n">>)
  /\ response.body = <<" ", "a">>

(***************************************************************************)
(* Parent assignments, and what they leave of the tree.                    *)
(***************************************************************************)
\* the step is the call child.parent = parent
Assigned == last'.op = "parent" /\ ncalls' = ncalls + 1

\* C21: a call child.parent = parent whose parent, a node or a server app,
\* is the parent the child has already changes no link, and makes no call
\* app[method](path, handler): the registrations of every server app, and
\* the calls they received, are what they were.
C21_SameParentNoOp ==
  [][Assigned /\ last'.parent.kind \in {"node", "host"}
       /\ heap.parent[last'.node] = last'.parent
     => /\ heap'.parent = heap.parent
        /\ heap'.children = heap.children
        /\ heap'.reg = heap.reg
        /\ heap'.calls = <<>>]_vars

\* the node a handler function was registered on
OwnerOf(H, handler) ==
  {d \in Created(H) : \E i \in 1..Len(H.handlers[d]) : H.handlers[d][i].val.handler = handler}

\* C22: a call child.parent = parent whose parent is neither a node nor a
\* server app leaves the child without parent and with the handlers it had,
\* and registers nothing; and no call of the interface ever registers on a
\* server app a handler of a node whose chain of parents ends at nothing:
\* what is added to a detached node, or exported through it, reaches no app.
C22_DetachInert ==
  [][/\ Assigned /\ last'.parent.kind \notin {"node", "host"}
        => /\ heap'.parent[last'.node] = NoParent
           /\ heap'.handlers = heap.handlers
           /\ heap'.reg = heap.reg /\ heap'.calls = <<>>
     /\ \A c \in CallsMade(heap') :
          \A d \in OwnerOf(heap', c.handler) : TopParent(heap', d) = HostRef(c.app)
     /\ \A d \in Created(heap') :
          TopParent(heap', d).kind = "none"
            => \A i \in 1..Len(heap'.handlers[d]) :
                 \A c \in CallsMade(heap') : c.handler # heap'.handlers[d][i].val.handler]_vars

C22_Witness ==
  /\ last.op = "addHandler"
  /\ heap.parent[last.node] = NoParent
  /\ heap.handlers[last.node] # <<>>
  /\ \E p \in Created(heap) :
       /\ last.node \in MapVals(heap.children[p])
       /\ TopParent(heap, p).kind = "host"
  /\ heap.calls = <<>>

(***************************************************************************)
(* Nodes and the objects given to them as server apps: every object of     *)
(* Hosts is given as first argument of selfapi, as the receiver of api, or *)
(* as the parent assigned, and handlers are added under every method.      *)
(***************************************************************************)
HostCalls == 3
HostNodes == 2

\* API.prototype.methods
Verbs == {"get", "post", "patch", "put", "delete"}

\* the methods given to addHandler: those of api.get(...), ..., and 'del'
VerbsGiven == Verbs \cup {"del"}

\* this.api(path): selfapi called on `this`, which is taken as parent when
\* it is an API or a server app
api(H, this, path) ==
  IF this.kind = "node" \/ isServerApp(this)
  THEN selfapi(H, this, path, 0)
  ELSE selfapi(H, NoParent, path, 0)

HostInit ==
  /\ heap = EmptyHeap
  /\ ncalls = 0
  /\ last = Call("none", 0, NoParent, None, "", 0)
  /\ twin = EmptyHeap
  /\ plan = <<>>
  /\ pc = "host"
  /\ baseUrl = [protocol |-> "http:", pathname |-> Root]
  /\ run = IdleRun
  /\ exampleResponse = NoExampleResponse
  /\ response = NoResponse
  /\ pathCall = NoPathCall
  /\ request = NoRequest

\* selfapi(object, path)
HostConstruct ==
  \E a \in Hosts, path \in {None, <<"", "a">>} :
    /\ pc = "host" /\ ncalls < HostCalls /\ heap.n < HostNodes
    /\ heap' = selfapi(Begin(heap), HostRef(a), path, 0)
    /\ ncalls' = ncalls + 1
    /\ last' = Call("selfapi", heap.n + 1, HostRef(a), path, "", 0)
    /\ UNCHANGED <<orderVars, runVars, callVars>>

\* object.api = selfapi; object.api(path)
HostApi ==
  \E a \in Hosts, path \in {None, <<"", "a">>} :
    /\ pc = "host" /\ ncalls < HostCalls /\ heap.n < HostNodes
    /\ heap' = api(Begin(heap), HostRef(a), path)
    /\ ncalls' = ncalls + 1
    /\ last' = Call("api", heap.n + 1, HostRef(a), path, "", 0)
    /\ UNCHANGED <<orderVars, runVars, callVars>>

\* child.parent = object
HostAssign ==
  \E child \in Created(heap), a \in Hosts :
    /\ pc = "host" /\ ncalls < HostCalls
    /\ heap' = setParent(Begin(heap), child, HostRef(a))
    /\ ncalls' = ncalls + 1
    /\ last' = Call("parent", child, HostRef(a), None, "", 0)
    /\ UNCHANGED <<orderVars, runVars, callVars>>

\* api.get(parameters), ..., api.delete(parameters), api.addHandler('del', parameters)
HostAddHandler ==
  \E this \in Created(heap), method \in VerbsGiven :
    /\ pc = "host" /\ ncalls < HostCalls
    /\ heap' = addHandler(Begin(heap), this, method, None,
                          [handler |-> ncalls + 1, examples |-> <<>>])
    /\ ncalls' = ncalls + 1
    /\ last' = Call("addHandler", this, NoParent, None, method, ncalls + 1)
    /\ UNCHANGED <<orderVars, runVars, callVars>>

HostNext == HostConstruct \/ HostApi \/ HostAssign \/ HostAddHandler

SpecHost == HostInit /\ [][HostNext]_vars

\* the latest call gave an object as the parent of a node
ObjectGiven == last.op \in {"selfapi", "api", "parent"} /\ last.parent.kind = "host"

\* the node of the latest call has the object given as its parent
Accepted == heap.parent[last.node] = last.parent

\* C23 as stated: the object given is the parent of the node exactly when
\* it has get, post and put, and the node is without parent otherwise.
C23_ProbeGetPostPut ==
  ObjectGiven =>
    /\ Accepted <=> {"get", "post", "put"} \subseteq Properties(last.parent.ref)
    /\ ~Accepted => heap.parent[last.node] = NoParent

\* C23, amended: the object given is the parent of the node exactly when it
\* has use or handle, and get and post, and the node is without parent
\* otherwise.
C23_ProbeUseGetPost ==
  ObjectGiven =>
    /\ Accepted <=>
         /\ {"use", "handle"} \cap Properties(last.parent.ref) # {}
         /\ {"get", "post"} \subseteq Properties(last.parent.ref)
    /\ ~Accepted => heap.parent[last.node] = NoParent

C23_Witness ==
  /\ ObjectGiven /\ Accepted
  /\ last.op = "parent"
  /\ "put" \notin Properties(last.parent.ref)
  /\ \E n \in Created(heap) : n # last.node /\ heap.parent[n] = NoParent

\* C24: when a handler is added under one of the five methods to a node
\* mounted on a server app that has del and not delete, the call does not
\* fail and makes one registration on the app, under del for the method
\* delete and under the method itself for the others.
C24_DeleteAlias ==
  /\ last.op = "addHandler" /\ last.method \in Verbs
  /\ heap.parent[last.node].kind = "host"
  /\ "del" \in Properties(heap.parent[last.node].ref)
  /\ "delete" \notin Properties(heap.parent[last.node].ref)
  => /\ ~heap.thrown
     /\ Len(heap.calls) = 1
     /\ heap.calls[1].app = heap.parent[last.node].ref
     /\ heap.calls[1].method = IF last.method = "delete" THEN "del" ELSE last.method

\* the step is a call of addHandler
Added == last'.op = "addHandler" /\ ncalls' = ncalls + 1

\* the map holds, under the method of the call, the handler of the call
StoredIn(map) ==
  MapHas(map, last'.method) /\ MapGet(map, last'.method).handler = last'.handler

\* C25: a call of addHandler on a node with a path that normalizes to a
\* sub-path leaves the handlers of the node as they were and stores the
\* handler in the child the node keeps under the sub-path: the child it
\* kept already, no node being made and no children map changed, or else a
\* new node with the sub-path as path and the node as parent, the one key
\* added to the children of the node; with no path, or one that normalizes
\* to the root, the handler is stored in the handlers of the node itself and
\* no node is made.
C25_SubPathDelegates ==
  [][Added =>
       LET this == last'.node
           path == normalizePath(last'.path, None)
       IN IF path = None
          THEN /\ StoredIn(heap'.handlers[this])
               /\ heap'.n = heap.n /\ heap'.children = heap.children
          ELSE /\ heap'.handlers[this] = heap.handlers[this]
               /\ MapHas(heap'.children[this], path)
               /\ StoredIn(heap'.handlers[MapGet(heap'.children[this], path)])
               /\ IF MapHas(heap.children[this], path)
                  THEN /\ heap'.n = heap.n /\ heap'.children = heap.children
                       /\ heap'.parent = heap.parent
                  ELSE /\ heap'.n = heap.n + 1
                       /\ MapGet(heap'.children[this], path) = heap.n + 1
                       /\ heap'.path[heap.n + 1] = path
                       /\ heap'.parent[heap.n + 1] = NodeRef(this)
                       /\ heap'.children[this] =
                            Append(heap.children[this], [key |-> path, val |-> heap.n + 1])]_vars

C25_Witness ==
  /\ last.op = "addHandler" /\ normalizePath(last.path, None) # None
  /\ heap.handlers[last.node] = <<>>
  /\ Len(heap.children[last.node]) = 1
  /\ \E c \in MapVals(heap.children[last.node]) :
       Len(heap.handlers[c]) = 2 /\ heap.parent[c] = NodeRef(last.node)
  /\ heap.n = 2

(***************************************************************************)
(* The forms of construction.  heap is built with any of the three forms,  *)
(* twin with selfapi(parent, path, title) alone, from the same parents,    *)
(* paths and titles; the handlers added afterwards are added to both.  The *)
(* parents are APIs and server apps, the paths and titles strings.         *)
(***************************************************************************)
FormCalls == 3

Forms == {"arguments", "parameters", "receiver"}
Titles == {"", "T"}
FormPaths == {EmptyString, Root, <<"", "a">>}

FormParents(H) ==
  {NoParent, HostRef("app"), HostRef("router")} \cup {NodeRef(p) : p \in Created(H)}

\* selfapi(parent, path, title), selfapi({parent: ..., path: ..., title: ...})
\* and parent.api(path, title)
Constructed(H, form, parent, path, title) ==
  CASE form = "arguments" -> selfapiTitled(H, parent, path, title, 0)
    [] form = "parameters" -> API(H, [parent |-> parent, path |-> path, title |-> title])
    [] form = "receiver" ->
         IF parent.kind = "node" \/ isServerApp(parent)
         THEN selfapiTitled(H, parent, path, title, 0)
         ELSE selfapiTitled(H, NoParent, path, title, 0)

FormInit ==
  /\ heap = EmptyHeap
  /\ twin = EmptyHeap
  /\ ncalls = 0
  /\ last = Call("none", 0, NoParent, None, "", 0)
  /\ plan = <<>>
  /\ pc = "forms"
  /\ baseUrl = [protocol |-> "http:", pathname |-> Root]
  /\ run = IdleRun
  /\ exampleResponse = NoExampleResponse
  /\ response = NoResponse
  /\ pathCall = NoPathCall
  /\ request = NoRequest

FormConstruct ==
  \E form \in Forms, parent \in FormParents(heap), path \in FormPaths, title \in Titles :
    /\ pc = "forms" /\ ncalls < FormCalls /\ heap.n < HostNodes
    /\ form = "receiver" => parent # NoParent
    /\ heap' = Constructed(Begin(heap), form, parent, path, title)
    /\ twin' = Constructed(Begin(twin), "arguments", parent, path, title)
    /\ ncalls' = ncalls + 1
    /\ last' = Call(form, heap.n + 1, parent, path, title, 0)
    /\ UNCHANGED <<plan, pc, runVars, callVars>>

FormAddHandler ==
  \E this \in Created(heap), method \in Methods, path \in {None, <<"", "a">>} :
    /\ pc = "forms" /\ ncalls < FormCalls
    /\ \/ MapHas(heap.children[this], normalizePath(path, None))
       \/ path = None
       \/ heap.n < HostNodes
    /\ heap' = addHandler(Begin(heap), this, method, path,
                          [handler |-> ncalls + 1, examples |-> <<>>])
    /\ twin' = addHandler(Begin(twin), this, method, path,
                          [handler |-> ncalls + 1, examples |-> <<>>])
    /\ ncalls' = ncalls + 1
    /\ last' = Call("addHandler", this, NoParent, path, method, ncalls + 1)
    /\ UNCHANGED <<plan, pc, runVars, callVars>>

FormNext == FormConstruct \/ FormAddHandler

SpecForms == FormInit /\ [][FormNext]_vars

MaxSegments == 3
MaxBaseSegments == 2

Segments == {"", "a", ".", ".."}

StringsUpTo(n) == UNION {[1..k -> Segments] : k \in 0..n}

PathStrings == StringsUpTo(MaxSegments)
BaseStrings == StringsUpTo(MaxBaseSegments)

PathInit ==
  /\ heap = EmptyHeap
  /\ twin = EmptyHeap
  /\ ncalls = 0
  /\ last = Call("none", 0, NoParent, None, "", 0)
  /\ plan = <<>>
  /\ pc = "paths"
  /\ baseUrl = [protocol |-> "http:", pathname |-> Root]
  /\ run = IdleRun
  /\ exampleResponse = NoExampleResponse
  /\ response = NoResponse
  /\ pathCall = NoPathCall
  /\ request = NoRequest

\* normalizePath(path, basePath)
NormalizeCall ==
  /\ pc = "paths" /\ pathCall.calls = 0
  /\ \E path \in PathStrings, basePath \in BaseStrings :
       pathCall' = [path |-> path, basePath |-> basePath,
                    result |-> normalizePath(path, basePath),
                    again |-> None, calls |-> 1]
  /\ UNCHANGED <<treeVars, orderVars, runVars, request>>

\* normalizePath(result) on the result of the call before
NormalizeAgain ==
  /\ pc = "paths" /\ pathCall.calls = 1
  /\ pathCall' = [pathCall EXCEPT !.again = normalizePath(pathCall.result, None),
                                  !.calls = 2]
  /\ UNCHANGED <<treeVars, orderVars, runVars, request>>

PathNext == NormalizeCall \/ NormalizeAgain

SpecPaths == PathInit /\ [][PathNext]_vars

\* the result of the call is null or a string
ResultIsPath ==
  \A i \in 1..Len(pathCall.result) : pathCall.result[i] \in Segments

\* the path joined from the arguments of the call is the root
JoinedIsRoot ==
  PosixJoin(IF Falsy(pathCall.basePath) THEN Root ELSE pathCall.basePath,
            IF Falsy(pathCall.path) THEN EmptyString ELSE pathCall.path) = Root

\* C27 as stated: for every path and base path, normalizePath returns null
\* or a string, null exactly when the joined path is the root, and
\* normalizePath of its result is its result.
C27_Idempotent ==
  /\ pathCall.calls >= 1 => ResultIsPath /\ (pathCall.result = None <=> JoinedIsRoot)
  /\ pathCall.calls = 2 => pathCall.again = pathCall.result

\* C27, amended: for every path and base path, normalizePath returns null
\* or a string, null exactly when the joined path is the root; and when the
\* base path is null, empty or absolute, normalizePath of its result is its
\* result.
C27_IdempotentAbsoluteBase ==
  /\ pathCall.calls >= 1 => ResultIsPath /\ (pathCall.result = None <=> JoinedIsRoot)
  /\ pathCall.calls = 2
       /\ (Falsy(pathCall.basePath) \/ pathCall.basePath[1] = "")
     => pathCall.again = pathCall.result

C27_Witness ==
  /\ pathCall.calls = 2
  /\ pathCall.basePath = <<"", "a">>
  /\ pathCall.path = <<"a", "..", "..">>
  /\ pathCall.result = None /\ pathCall.again = None

(***************************************************************************)
(* The path requested for an example with URL parameters: the path of the  *)
(* handler, with named parameters and the wildcard as express has them,    *)
(* and up to MaxParameters entries of urlParameters under different names. *)
(***************************************************************************)
MaxParameters == 2

RequestPaths ==
  {<<"/", "n", "/", ":", "p">>,
   <<"/", "u", "/", "*">>,
   <<"/", ":", "p", "/", ":", "q">>,
   <<"/", ":", "p", "q", "/", "*">>,
   <<"/", "n">>}

ParameterNames == {<<"p">>, <<"q">>, <<"p", "q">>, <<"*">>}
ParameterValues == {<<"v">>, <<"w", "x">>}

ParameterLists ==
  {l \in UNION {[1..k -> [key : ParameterNames, val : ParameterValues]] :
                  k \in 0..MaxParameters} :
     \A i, j \in 1..Len(l) : l[i].key = l[j].key => i = j}

RequestInit ==
  /\ heap = EmptyHeap
  /\ twin = EmptyHeap
  /\ ncalls = 0
  /\ last = Call("none", 0, NoParent, None, "", 0)
  /\ plan = <<>>
  /\ pc = "request"
  /\ baseUrl = [protocol |-> "http:", pathname |-> Root]
  /\ run = IdleRun
  /\ exampleResponse = NoExampleResponse
  /\ response = NoResponse
  /\ pathCall = NoPathCall
  /\ \E path \in RequestPaths, urlParameters \in ParameterLists :
       request = [path |-> path, urlParameters |-> urlParameters,
                  result |-> <<>>, built |-> FALSE]

\* testHandlerExample builds requestOptions.path
BuildRequest ==
  /\ pc = "request" /\ ~request.built
  /\ request' = [request EXCEPT
                   !.result = SubstituteParameters(request.path, request.urlParameters, 1),
                   !.built = TRUE]
  /\ UNCHANGED <<treeVars, orderVars, runVars, pathCall>>

SpecRequest == RequestInit /\ [][BuildRequest]_vars

\* the characters of s from position i up to the next '/' or the end
RECURSIVE UpToSlash(_, _)
UpToSlash(s, i) ==
  IF i > Len(s) \/ s[i] = "/" THEN <<>> ELSE <<s[i]>> \o UpToSlash(s, i + 1)

HasParameter(l, name) == \E k \in 1..Len(l) : l[k].key = name
ParameterOf(l, name) == l[CHOOSE k \in 1..Len(l) : l[k].key = name].val

\* the path with every placeholder that has an entry replaced by the value
\* of the entry: ':name' up to the next '/', and '*'
RECURSIVE Placed(_, _, _)
Placed(s, l, i) ==
  IF i > Len(s) THEN <<>>
  ELSE IF s[i] = ":" /\ HasParameter(l, UpToSlash(s, i + 1))
  THEN ParameterOf(l, UpToSlash(s, i + 1)) \o Placed(s, l, i + 1 + Len(UpToSlash(s, i + 1)))
  ELSE IF s[i] = "*" /\ HasParameter(l, <<"*">>)
  THEN ParameterOf(l, <<"*">>) \o Placed(s, l, i + 1)
  ELSE <<s[i]>> \o Placed(s, l, i + 1)

\* C28: the path requested is the path of the handler with the value of
\* each entry of urlParameters in the place of its placeholder, ':name' for
\* a named entry and '*' for the entry '*', and the rest as it was.
C28_PlaceholdersOnly ==
  request.built => request.result = Placed(request.path, request.urlParameters, 1)

\* node p keeps node n among its children under the path n has
KeptUnderPath(H, p, n) ==
  MapHas(H.children[p], H.path[n]) /\ MapGet(H.children[p], H.path[n]) = n

\* C29 as stated: in every state, a node n has the node p as parent if and
\* only if p keeps n among its children under the path of n.
C29_LinkedBothWays ==
  \A n, p \in Created(heap) :
    heap.parent[n] = NodeRef(p) <=> KeptUnderPath(heap, p, n)

\* the step gives the node last'.node a node as parent that is not the
\* parent it has
NodeAssigned ==
  /\ ncalls' = ncalls + 1
  /\ last'.op \in {"selfapi", "mount", "parent"}
  /\ last'.parent.kind = "node"
  /\ last'.op = "selfapi" \/ heap.parent[last'.node] # last'.parent

\* C29, amended: when a node is given a node as parent that is not the
\* parent it has, by construction, by selfapi on an existing node or by
\* assignment, it has that parent and that parent keeps it among its
\* children under its path in the state that follows, and so has the child
\* addHandler makes for a sub-path; the links of the parent the node had
\* before, and of a node kept before under the same path, are left as they
\* were.
C29_LinkedWhenAssigned ==
  [][/\ NodeAssigned
        => /\ heap'.parent[last'.node] = last'.parent
           /\ KeptUnderPath(heap', last'.parent.ref, last'.node)
           /\ \A p \in Created(heap) :
                p # last'.parent.ref => heap'.children[p] = heap.children[p]
           /\ \A n \in Created(heap) :
                n # last'.node => heap'.parent[n] = heap.parent[n]
     /\ last'.op = "addHandler" /\ ncalls' = ncalls + 1 /\ heap'.n = heap.n + 1
        => /\ heap'.parent[heap'.n] = NodeRef(last'.node)
           /\ KeptUnderPath(heap', last'.node, heap'.n)]_vars

C29_Witness ==
  /\ last.op = "parent" /\ last.parent.kind = "node"
  /\ heap.parent[last.node] = last.parent
  /\ KeptUnderPath(heap, last.parent.ref, last.node)
  /\ \E q \in Created(heap) :
       /\ q # last.parent.ref
       /\ KeptUnderPath(heap, q, last.node)

\* C30 as stated: no call removes a key from the children or the handlers
\* of a node, nor a node from the children of a node.
C30_AppendOnly ==
  [][\A i \in Nodes :
       /\ MapKeys(heap.children[i]) \subseteq MapKeys(heap'.children[i])
       /\ MapKeys(heap.handlers[i]) \subseteq MapKeys(heap'.handlers[i])
       /\ MapVals(heap.children[i]) \subseteq MapVals(heap'.children[i])]_vars

\* C30, amended: no call removes a key from the children or the handlers
\* of a node, and what a map holds under a key changes only for the key the
\* call assigns: the path of the node given a parent, the method of the
\* handler added.
C30_KeysOnlyGrow ==
  [][\A i \in Nodes :
       /\ MapKeys(heap.children[i]) \subseteq MapKeys(heap'.children[i])
       /\ MapKeys(heap.handlers[i]) \subseteq MapKeys(heap'.handlers[i])
       /\ \A k \in MapKeys(heap.children[i]) :
            MapGet(heap'.children[i], k) # MapGet(heap.children[i], k)
              => /\ last'.op \in {"selfapi", "mount", "parent"}
                 /\ last'.parent = NodeRef(i)
                 /\ k = heap'.path[last'.node]
                 /\ MapGet(heap'.children[i], k) = last'.node
       /\ \A m \in MapKeys(heap.handlers[i]) :
            MapGet(heap'.handlers[i], m) # MapGet(heap.handlers[i], m)
              => last'.op = "addHandler" /\ m = last'.method]_vars

C30_Witness ==
  /\ last.op \in {"selfapi", "mount", "parent"} /\ last.parent.kind = "node"
  /\ Len(heap.children[last.parent.ref]) = 1
  /\ KeptUnderPath(heap, last.parent.ref, last.node)
  /\ \E n \in Created(heap) :
       /\ n # last.node
       /\ heap.parent[n] = last.parent
       /\ heap.path[n] = heap.path[last.node]
       /\ heap.handlers[n] # <<>>

(***************************************************************************)
(* The order of the examples of a run.  An example is open from the call   *)
(* of testHandlerExample for it until its result is reported to test; its  *)
(* request is in flight from client.request until the response has ended   *)
(* or the connection has failed.                                           *)
(***************************************************************************)
InFlight == {e \in ExampleIds : run.act[e].request = "sent"}

Open == {e \in ExampleIds : run.act[e].started /\ ~Has(run.act[e].log, "reported")}

\* C31: test runs the examples one at a time: at most one example is open
\* (the beforeEachTest of the next is not called, and its request is not
\* issued, before the continuation of the afterEachTest of the previous
\* one was called), at most one request is in flight at any moment, and
\* the results of an example are merged once, by the one chain.
C31_OneAtATime ==
  /\ Cardinality(Open) <= 1
  /\ Cardinality(InFlight) <= 1
  /\ \A e \in ExampleIds : Count(run.act[e].log, "reported") <= 1

\* the step calls the completion callback once more, with the error of a
\* hook and the lists given
Aborted(passed, failed) ==
  /\ Len(run'.cbs) = Len(run.cbs) + 1
  /\ run'.cbs[Len(run'.cbs)].error \in HookErrors
  /\ run'.cbs[Len(run'.cbs)].passed = passed
  /\ run'.cbs[Len(run'.cbs)].failed = failed
  /\ run'.tests = run.tests
  /\ \A f \in ExampleIds : run'.act[f].starts = run.act[f].starts

\* C32: an error a hook passes to its continuation is the error of the
\* run.  The step in which beforeEachTest reports an error issues no
\* request for the example and calls no afterEachTest, and the step in
\* which afterEachTest reports an error merges the verdict of the example
\* into the results; either step starts no other example and calls the
\* completion callback with the error and with the results as merged.
C32_HookErrorAborts ==
  [][\A e \in ExampleIds :
       /\ Count(run'.act[e].log, "beforeEachTest error")
            > Count(run.act[e].log, "beforeEachTest error")
          => /\ run'.act[e].request = "none"
             /\ ~Has(run'.act[e].log, "request")
             /\ ~Has(run'.act[e].log, "afterEachTest")
             /\ Aborted(run.results.passed, run.results.failed)
       /\ Count(run'.act[e].log, "afterEachTest error")
            > Count(run.act[e].log, "afterEachTest error")
          => /\ run.act[e].passed \o run.act[e].failed # <<>>
             /\ Aborted(run.results.passed \o run.act[e].passed,
                        run.results.failed \o run.act[e].failed)
    ]_vars

\* the afterEachTest of an example that passed reported an error while
\* another example was waiting: the completion callback got the error and
\* the verdict, and the other example was not started
C32_Witness ==
  \E e \in ExampleIds :
    /\ Has(run.act[e].log, "afterEachTest error")
    /\ run.act[e].passed = <<e>>
    /\ Len(run.cbs) = 1
    /\ run.cbs[1].error \in HookErrors
    /\ run.cbs[1].passed = <<e>> /\ run.cbs[1].failed = <<>>
    /\ run.tests # <<>>
    /\ \A f \in ExampleIds \ {e} : ~run.act[f].started

\* the node whose handlers hold the example e
Owner(e) == CHOOSE n \in Created(heap) : e \in ExamplesOwned(heap, {n})

\* the continuations of afterEachTest called for the example so far
AfterContinued(log) == Count(log, "afterEachTest done") + Count(log, "afterEachTest error")

\* C33: the hooks run around an example are those of the node that owns
\* it, whatever node the run was started on: testHandlerExample runs with
\* the owner as `this`; a beforeEachTest (afterEachTest) of the user holds
\* a continuation of the example only when it is the owner's; and an
\* example whose owner has no beforeEachTest (afterEachTest) goes through
\* the default, which calls the continuation at once: the request is
\* issued in the step that starts the example (the result is reported in
\* the step of the verdict).
C33_OwnHooks ==
  \A e \in ExampleIds :
    run.act[e].started =>
      LET n == Owner(e)
          log == run.act[e].log
      IN /\ run.act[e].node = n
         /\ run.act[e].before = "pending" => heap.beforeEachTest[n] = "function"
         /\ run.act[e].after > 0 => heap.afterEachTest[n] = "function"
         /\ heap.beforeEachTest[n] = "null" /\ ~Faulty(e) =>
              /\ run.act[e].before = "done"
              /\ SubSeq(log, 1, 3) = <<"beforeEachTest", "beforeEachTest done", "request">>
         /\ heap.beforeEachTest[n] = "function" /\ ~Faulty(e) =>
              /\ log[1] = "beforeEachTest"
              /\ (Len(log) = 1) = (run.act[e].before = "pending")
         /\ heap.afterEachTest[n] = "null" =>
              \A i \in 1..Len(log) :
                log[i] = "afterEachTest" =>
                  i < Len(log) /\ log[i + 1] = "afterEachTest done"
         /\ heap.afterEachTest[n] = "function" =>
              Count(log, "afterEachTest") = run.act[e].after + AfterContinued(log)

\* in a run started on the node at '/a', which has hooks of the user, an
\* example of that node was reported after both hooks had continued, and
\* the request of an example of the child under '/b', which has no hooks,
\* was issued without any hook of the user having been called for it
C33_Witness ==
  \E e, f \in ExampleIds :
    /\ run.act[e].started /\ run.act[f].started
    /\ Owner(e) = run.target /\ Owner(f) \in Descendants(heap, run.target)
    /\ heap.beforeEachTest[run.target] = "function"
    /\ heap.afterEachTest[run.target] = "function"
    /\ heap.beforeEachTest[Owner(f)] = "null"
    /\ heap.afterEachTest[Owner(f)] = "null"
    /\ Has(run.act[e].log, "afterEachTest done")
    /\ Has(run.act[e].log, "reported")
    /\ run.act[f].log = <<"beforeEachTest", "beforeEachTest done", "request">>

(***************************************************************************)
(* The handlers of one node over its life.  The node is an API at '/a'     *)
(* constructed without parent; handlers are added to it under 'get' (the   *)
(* shortcut api.get) and under 'del' (api.addHandler('del', ...), the      *)
(* method the exporter renames for a server app that has `delete`), the    *)
(* k-th with the handler function k and the one example k; the node is     *)
(* given a server app as parent, and then tested.                          *)
(***************************************************************************)
LatestMethods == {"get", "del"}

LatestInit ==
  /\ heap = Begin(selfapi(EmptyHeap, NoParent, <<"", "a">>, 0))
  /\ ncalls = 0
  /\ last = Call("none", 0, NoParent, None, "", 0)
  /\ twin = EmptyHeap
  /\ plan = <<>>
  /\ pc = "run"
  /\ baseUrl = [protocol |-> "http:", pathname |-> Root]
  /\ run = [IdleRun EXCEPT !.target = 1]
  /\ exampleResponse = NoExampleResponse
  /\ response = NoResponse
  /\ pathCall = NoPathCall
  /\ request = NoRequest

\* api.get(parameters), api.addHandler('del', parameters)
LatestAddHandler ==
  \E method \in LatestMethods :
    /\ run.state = "idle" /\ ncalls < MaxExamples
    /\ heap' = addHandler(Begin(heap), 1, method, None,
                          [handler |-> ncalls + 1, examples |-> <<ncalls + 1>>])
    /\ ncalls' = ncalls + 1
    /\ last' = Call("addHandler", 1, NoParent, None, method, ncalls + 1)
    /\ UNCHANGED <<orderVars, runVars, callVars>>

\* api.parent = app, for an express application or a restify server
LatestAttach ==
  \E a \in {"app", "restify"} :
    /\ run.state = "idle" /\ heap.parent[1] = NoParent
    /\ heap' = setParent(Begin(heap), 1, HostRef(a))
    /\ last' = Call("parent", 1, HostRef(a), None, "", 0)
    /\ UNCHANGED <<ncalls, orderVars, runVars, callVars>>

LatestNext == LatestAddHandler \/ LatestAttach \/ StartTest \/ Response

SpecLatest == LatestInit /\ [][LatestNext]_vars

\* the handlers of no node hold two specs under one method
OneSpecPerMethod(H) ==
  \A n \in Nodes : \A i, j \in 1..Len(H.handlers[n]) :
    H.handlers[n][i].key = H.handlers[n][j].key => i = j

\* the registrations of the handlers the node n holds, on the app
Held(H, n, a) ==
  {Registration(a, EntryPoint(a, H.handlers[n][i].key), FullPath(H, n),
                H.handlers[n][i].val.handler) : i \in 1..Len(H.handlers[n])}

\* what holds of the handlers after every step, whatever their methods:
\* one spec per method; addHandler leaves its spec under its method and
\* the other methods as they were; the assignment of the parent exports
\* the specs held, each once, and nothing else; a run schedules and starts
\* the examples of the specs held, and no other
LatestSpecOnly ==
  /\ OneSpecPerMethod(heap')
  /\ last'.op = "addHandler" /\ ncalls' # ncalls =>
       /\ MapGet(heap'.handlers[1], last'.method).handler = ncalls'
       /\ MapKeys(heap'.handlers[1]) = MapKeys(heap.handlers[1]) \cup {last'.method}
       /\ \A m \in MapKeys(heap.handlers[1]) \ {last'.method} :
            MapGet(heap'.handlers[1], m) = MapGet(heap.handlers[1], m)
  /\ last'.op = "parent" =>
       /\ CallsMade(heap') = Held(heap', 1, last'.parent.ref)
       /\ Len(heap'.calls) = Len(heap'.handlers[1])
  /\ run'.state = "running" =>
       /\ {run'.tests[i].example : i \in 1..Len(run'.tests)}
            \cup {e \in ExampleIds : run'.act[e].started}
              = ExamplesOwned(heap', {1})
       /\ \A e \in ExampleIds : run'.act[e].starts <= 1

\* C34 as stated: the handlers of a node hold at most one spec per method,
\* the methods being of the fixed set of verbs get, post, patch, put and
\* delete; a second spec under a method replaces the first, and every
\* later export of the node on attach and every run of its tests uses the
\* latest spec of each method only.
C34_OnePerVerb ==
  [][/\ \A n \in Nodes : MapKeys(heap'.handlers[n]) \subseteq Verbs
     /\ LatestSpecOnly]_vars

\* C34, amended: the handlers of a node hold at most one spec per method,
\* the methods being those given to addHandler, of the fixed set of verbs
\* or not; a second spec under a method replaces the first, and every
\* later export of the node on attach and every run of its tests uses the
\* latest spec of each method only.
C34_OnePerMethod ==
  [][LatestSpecOnly]_vars

\* two specs were added under 'get', the node was then given the app as
\* parent, which registered the second spec and not the first, and the
\* example of the second spec has passed in the run that followed
C34_Witness ==
  /\ ncalls = 2
  /\ MapKeys(heap.handlers[1]) = {"get"}
  /\ MapGet(heap.handlers[1], "get").handler = 2
  /\ last.op = "parent" /\ last.parent = HostRef("app")
  /\ heap.reg["app"] = {[method |-> "get", path |-> <<"", "a">>, handler |-> 2]}
  /\ run.act[2].passed = <<2>>
  /\ ~run.act[1].started
  /\ run.cbs # <<>>
====
